---- MODULE Spec2Model ----
(***************************************************************************)
(* Model of the passage segmentation, retrieval and consolidation engine   *)
(* of policy_analysis_system:                                              *)
(*   - PolicyDocumentChunker            (src/Agent/utils/chunking.py)      *)
(*   - MilvusVectorDatabase.search_chunks   (src/Agent/vector_db.py)       *)
(*   - NoveltyAgent._deduplicate_chunks (src/Agent/agents/novelty_agent.py)*)
(*   - SimplifiedRAGAgent.merge_chunks_by_doc_id                           *)
(*                                      (src/agents/enhanced_rag_agent.py) *)
(*                                                                         *)
(* Text is a sequence of one-character tokens.  The alphabet is            *)
(*   "a"      an ordinary character                                        *)
(*   " "      a space                 "\n"     a newline                   *)
(*   "<ju>"   the sentence delimiter U+3002 (ideographic full stop)        *)
(*   "<yi>"   a Chinese numeral (U+4E00), "<dun>" the mark U+3001          *)
(* so that len(), slicing, find/rfind, strip and the regular expressions   *)
(* of the source act on it position by position.                           *)
(***************************************************************************)
EXTENDS Integers, Sequences, FiniteSets, TLC

CH    == "a"
SPACE == " "
NL    == "\n"
CR    == "\r"
JU    == "<ju>"
YI    == "<yi>"
DUN   == "<dun>"

Whitespace      == {SPACE, NL, CR}
ChineseNumerals == {YI, "<er>", "<san>"}
Digits          == {"1", "2"}
ClauseMarks     == {DUN, "."}

Min(a, b) == IF a <= b THEN a ELSE b
Max(a, b) == IF a >= b THEN a ELSE b

Rep(c, n) == [i \in 1..n |-> c]

-----------------------------------------------------------------------------
(* Python string primitives on token sequences.                            *)

\* text[:n] for n >= 0
Take(s, n) == SubSeq(s, 1, Min(n, Len(s)))

\* text[n:] for n >= 0
Drop(s, n) == SubSeq(s, n + 1, Len(s))

\* str.rfind(d): the highest 0-based index where d occurs, or -1
RFind(s, d) ==
    LET hits == {i \in 0..(Len(s) - Len(d)) : SubSeq(s, i + 1, i + Len(d)) = d}
    IN  IF hits = {} THEN -1 ELSE CHOOSE i \in hits : \A j \in hits : j <= i

\* str.find(d): the lowest 0-based index where d occurs, or -1
Find(s, d) ==
    LET hits == {i \in 0..(Len(s) - Len(d)) : SubSeq(s, i + 1, i + Len(d)) = d}
    IN  IF hits = {} THEN -1 ELSE CHOOSE i \in hits : \A j \in hits : i <= j

\* str.lstrip()
LStrip(s) ==
    LET keep == {i \in 1..Len(s) : s[i] \notin Whitespace}
    IN  IF keep = {} THEN <<>>
        ELSE SubSeq(s, CHOOSE i \in keep : \A j \in keep : i <= j, Len(s))

\* str.strip()
Strip(s) ==
    LET keep == {i \in 1..Len(s) : s[i] \notin Whitespace}
    IN  IF keep = {} THEN <<>>
        ELSE SubSeq(s, CHOOSE i \in keep : \A j \in keep : i <= j,
                       CHOOSE i \in keep : \A j \in keep : j <= i)

RECURSIVE Concat(_)
Concat(ss) == IF ss = <<>> THEN <<>> ELSE Head(ss) \o Concat(Tail(ss))

\* '\n\n'.join(parts)
RECURSIVE JoinParts(_)
JoinParts(parts) ==
    IF parts = <<>> THEN <<>>
    ELSE IF Len(parts) = 1 THEN parts[1]
    ELSE parts[1] \o <<NL, NL>> \o JoinParts(Tail(parts))

-----------------------------------------------------------------------------
(* PolicyDocumentChunker: configuration and delimiters.                    *)

paragraph_delimiters == << <<NL, NL>>, <<NL, NL, NL>>, <<CR, NL, CR, NL>> >>
sentence_delimiters  == << <<JU>>, <<"<tan>">>, <<"<wen>">>, <<"<fen>">> >>

\* The minimal length a paragraph must exceed to pass the noise filter.
MinParaLen == 10

\* The loops of _smart_truncate over a delimiter list: best_pos is updated by
\* every delimiter whose last position exceeds both best_pos and
\* max_length * tenths / 10.
RECURSIVE BestCut(_, _, _, _, _)
BestCut(truncated, delims, best_pos, max_length, tenths) ==
    IF delims = <<>> THEN best_pos
    ELSE LET delimiter == Head(delims)
             pos == RFind(truncated, delimiter)
             nb  == IF pos > best_pos /\ 10 * pos > tenths * max_length
                    THEN pos + Len(delimiter) ELSE best_pos
         IN  BestCut(truncated, Tail(delims), nb, max_length, tenths)

\* Mutant: the cut may land anywhere up to the end of the delimiter that
\* starts inside the window (the cut position is not bounded by max_length).
SmartTruncateNoLimit(text, max_length) ==
    IF Len(text) <= max_length THEN text
    ELSE Strip(Take(text, max_length + 1))

\* Mutant: a text that is too long is cut down to nothing.
SmartTruncateToNothing(text, max_length) ==
    IF Len(text) <= max_length THEN text ELSE <<>>

_smart_truncate(text, max_length) ==
    IF Len(text) <= max_length THEN text
    ELSE LET truncated == Take(text, max_length)
             p1 == BestCut(truncated, paragraph_delimiters, -1, max_length, 5)
             best_pos == IF p1 < 0
                         THEN BestCut(truncated, sentence_delimiters, p1, max_length, 6)
                         ELSE p1
             space_pos == RFind(truncated, <<SPACE>>)
         IN  IF best_pos > 0 THEN Strip(Take(text, best_pos))
             ELSE IF 10 * space_pos > 8 * max_length THEN Strip(Take(text, space_pos))
             ELSE Strip(truncated)

\* re.match(r'^[class]+[marks]', p): one or more tokens of cls, then a mark.
RunThenMark(p, cls) ==
    \E k \in 1..(Len(p) - 1) :
        /\ \A i \in 1..k : p[i] \in cls
        /\ p[k + 1] \in ClauseMarks

\* Mutant: no paragraph is taken for a clause start.
IsClauseStartNever(paragraph) == FALSE

\* _is_clause_start.  Of the six clause_patterns only the first and the third
\* can match a text over the alphabet; the others need a bracket or the
\* character U+7B2C, which no input of the model contains.
_is_clause_start(paragraph) ==
    LET p == Strip(paragraph)
    IN  RunThenMark(p, ChineseNumerals) \/ RunThenMark(p, Digits)

\* The first delimiter of the list found in the first 30% of the window.
RECURSIVE OverlapCut(_, _, _)
OverlapCut(truncated, delims, target_length) ==
    IF delims = <<>> THEN Strip(truncated)
    ELSE LET pos == Find(truncated, Head(delims))
         IN  IF pos > 0 /\ 10 * pos < 3 * target_length
             THEN Strip(Drop(truncated, pos + Len(Head(delims))))
             ELSE OverlapCut(truncated, Tail(delims), target_length)

\* Mutant: the whole last paragraph is carried over.
ExtractWholeText(text, target_length) == text

_extract_overlap_text(text, target_length) ==
    IF Len(text) <= target_length THEN text
    ELSE OverlapCut(Drop(text, Len(text) - target_length), sentence_delimiters,
                    target_length)

\* End (1-based, inclusive) of the match of \n\s*\n+ that starts at i, or 0.
BlankMatchEnd(s, i) ==
    IF s[i] # NL THEN 0
    ELSE LET run == {j \in i..Len(s) : \A k \in (i + 1)..j : s[k] \in Whitespace}
             nls == {j \in run : j > i /\ s[j] = NL}
         IN  IF nls = {} THEN 0 ELSE CHOOSE j \in nls : \A k \in nls : k <= j

\* re.split(r'\n\s*\n+', content)
RECURSIVE SplitBlank(_, _, _)
SplitBlank(s, st, i) ==
    IF i > Len(s) THEN <<SubSeq(s, st, Len(s))>>
    ELSE LET e == BlankMatchEnd(s, i)
         IN  IF e > 0 THEN <<SubSeq(s, st, i - 1)>> \o SplitBlank(s, e + 1, e + 1)
             ELSE SplitBlank(s, st, i + 1)

\* End of the match of \n[numerals]+[marks] that starts at i, or 0.
ClauseMatchEnd(s, i) ==
    IF s[i] # NL THEN 0
    ELSE LET run == {j \in i..Len(s) : \A k \in (i + 1)..j : s[k] \in ChineseNumerals}
             last == CHOOSE j \in run : \A k \in run : k <= j
         IN  IF last > i /\ last < Len(s) /\ s[last + 1] \in {DUN, "."}
             THEN last + 1 ELSE 0

\* re.split(r'(\n[numerals]+[marks])', content): texts and captured markers
\* alternate, a text first and last.
RECURSIVE SplitClause(_, _, _)
SplitClause(s, st, i) ==
    IF i > Len(s) THEN <<SubSeq(s, st, Len(s))>>
    ELSE LET e == ClauseMatchEnd(s, i)
         IN  IF e > 0
             THEN <<SubSeq(s, st, i - 1), SubSeq(s, i, e)>> \o SplitClause(s, e + 1, e + 1)
             ELSE SplitClause(s, st, i + 1)

\* merged: clause_split[i] + clause_split[i + 1] for i in range(0, len - 1, 2)
MergeClauseSplit(cs) ==
    [j \in 1..((Len(cs) - 1) \div 2) |-> cs[2 * j - 1] \o cs[2 * j]]

\* The noise filter: strip, drop the empty and those of length <= 10.
RECURSIVE FilterParagraphs(_)
FilterParagraphs(ps) ==
    IF ps = <<>> THEN <<>>
    ELSE LET p == Strip(Head(ps))
         IN  IF Len(p) > MinParaLen
             THEN <<p>> \o FilterParagraphs(Tail(ps))
             ELSE FilterParagraphs(Tail(ps))

_split_into_paragraphs(content) ==
    LET by_blank     == SplitBlank(content, 1, 1)
        clause_split == SplitClause(content, 1, 1)
        merged       == MergeClauseSplit(clause_split)
        paragraphs   == IF /\ Len(by_blank) < 3
                           /\ Len(clause_split) > Len(by_blank)
                           /\ merged # <<>>
                        THEN merged ELSE by_blank
    IN  FilterParagraphs(paragraphs)

-----------------------------------------------------------------------------
(* Inputs of the chunker.                                                  *)

\* The largest number of paragraph texts a document is assembled from.
MaxParas == 3

\* Chunker configurations, in characters.  The first mirrors the one the
\* vector database constructs (400/450/50/450: max = absolute_max), the
\* second the constructor defaults (800/1000/150/1200), the third has no
\* overlap, the fourth is one the constructor accepts although
\* target > absolute_max.
Configs ==
    { [chunk_size_target |-> 16, chunk_size_max |-> 18, overlap |-> 4, absolute_max |-> 18],
      [chunk_size_target |-> 14, chunk_size_max |-> 17, overlap |-> 3, absolute_max |-> 20],
      [chunk_size_target |-> 24, chunk_size_max |-> 24, overlap |-> 0, absolute_max |-> 24],
      [chunk_size_target |-> 30, chunk_size_max |-> 30, overlap |-> 4, absolute_max |-> 14] }

\* Paragraph texts documents are assembled from: plain ones of several
\* lengths, with a sentence delimiter, with a space, a clause, texts
\* longer than every absolute_max, a text below the noise filter, and a
\* text with a single-newline clause marker.
ParaPool ==
    { Rep(CH, 11),
      Rep(CH, 9) \o <<JU>> \o Rep(CH, 2),
      Rep(CH, 17),
      <<YI, DUN>> \o Rep(CH, 10),
      Rep(CH, 26),
      Rep(CH, 15) \o <<JU>> \o Rep(CH, 10),
      Rep(CH, 17) \o <<SPACE>> \o Rep(CH, 8),
      Rep(CH, 3),
      Rep(CH, 11) \o <<NL, YI, DUN>> \o Rep(CH, 11) }

DocIds == {"doc_1"}

RECURSIVE SeqsUpTo(_, _)
SeqsUpTo(S, n) ==
    IF n = 0 THEN {<<>>}
    ELSE LET shorter == SeqsUpTo(S, n - 1)
         IN  shorter \cup {Append(s, x) : s \in {t \in shorter : Len(t) = n - 1}, x \in S}

Contents == {JoinParts(ps) : ps \in SeqsUpTo(ParaPool, MaxParas)}

-----------------------------------------------------------------------------
(* Timestamps.                                                             *)
(* A datetime is [day, tod]: a day number and a time of day.  Its ISO      *)
(* string is the date in DateWidth decimal digits (most significant first, *)
(* as "YYYY-MM-DD" is), the letter T, and the time of day; a string is a   *)
(* sequence of character codes relative to "0", so that digits are 0..9    *)
(* and the store's lexicographic comparison is the comparison of codes.    *)

None == "None"

\* Width of the date part of an ISO string (ts_str[:10] in the source).
DateWidth == 4

\* The code of "T" relative to "0".
TChar == 36

RECURSIVE Pow10(_)
Pow10(n) == IF n = 0 THEN 1 ELSE 10 * Pow10(n - 1)

DateDigits(day) == [i \in 1..DateWidth |-> (day \div Pow10(DateWidth - i)) % 10]

\* datetime.isoformat()
IsoFormat(dt) == DateDigits(dt.day) \o <<TChar, dt.tod>>

\* seg.timestamp.isoformat() if seg.timestamp else ""
\* An optional argument or field that is None or missing is a field the
\* record does not have.
Passed(r, field) == field \in DOMAIN r

StoredTimestamp(seg) ==
    IF Passed(seg, "timestamp") THEN IsoFormat(seg.timestamp) ELSE <<>>

NoDate == -1

RECURSIVE FromDigits(_)
FromDigits(ds) ==
    IF ds = <<>> THEN 0 ELSE 10 * FromDigits(SubSeq(ds, 1, Len(ds) - 1)) + ds[Len(ds)]

\* datetime.fromisoformat(ts).date() as a day number; NoDate when
\* fromisoformat raises.
ParseDate(ts) ==
    IF /\ Len(ts) >= DateWidth
       /\ \A i \in 1..DateWidth : ts[i] \in 0..9
       /\ (Len(ts) > DateWidth => ts[DateWidth + 1] = TChar)
    THEN FromDigits(Take(ts, DateWidth))
    ELSE NoDate

\* The store's string comparison a < b (lexicographic).
LexLt(a, b) ==
    \E k \in 0..Min(Len(a), Len(b)) :
        /\ \A i \in 1..k : a[i] = b[i]
        /\ \/ (k = Len(a) /\ k < Len(b))
           \/ (k < Len(a) /\ k < Len(b) /\ a[k + 1] < b[k + 1])

LexLeq(a, b) == a = b \/ LexLt(a, b)

\* dict.get(field, default)
Get(r, field, default) == IF field \in DOMAIN r THEN r[field] ELSE default

\* list.sort(key = lambda x: x[field], reverse = True): stable and
\* descending; InsertDesc puts x behind every element whose key is not
\* smaller.
RECURSIVE InsertDesc(_, _, _)
InsertDesc(sorted, x, field) ==
    IF sorted = <<>> THEN <<x>>
    ELSE IF Head(sorted)[field] >= x[field]
         THEN <<Head(sorted)>> \o InsertDesc(Tail(sorted), x, field)
         ELSE <<x>> \o sorted

RECURSIVE SortDesc(_, _)
SortDesc(s, field) ==
    IF s = <<>> THEN <<>>
    ELSE InsertDesc(SortDesc(SubSeq(s, 1, Len(s) - 1), field), s[Len(s)], field)

-----------------------------------------------------------------------------
(* State.                                                                  *)

VARIABLES
    \* PolicyDocumentChunker.chunk_document
    cfg,                  \* self.chunk_size_target, chunk_size_max, overlap, absolute_max
    doc_id,               \* argument doc_id
    content,              \* argument content
    paragraphs,           \* result of _split_into_paragraphs
    para_i,               \* position of the for loop over paragraphs (1-based)
    current_chunk_parts,  \* the running buffer
    current_chunk_size,   \* its accounted size
    chunk_idx,            \* next chunk index
    chunks,               \* emitted chunks
    remaining,            \* rest of an over-long paragraph inside the while loop
    overlap_seeds,        \* history: per emitted chunk, length of the overlap text its buffer was seeded with
    buffer_seed,          \* history: the same for the running buffer
    cpc,                  \* control point of chunk_document
    \* MilvusVectorDatabase.search_chunks
    store,                \* the chunk collection, ranked by L2 distance to the query
    args,                 \* the arguments of the search_chunks call
    hits,                 \* what chunk_collection.search returned
    formatted_results,    \* the coarse candidates after the exclusions
    rerank_outcome,       \* what the reranking stage did
    search_result,        \* the returned list
    spc,                  \* control point of search_chunks
    \* NoveltyAgent._deduplicate_chunks
    policy_timestamp,     \* argument policy_timestamp
    dedup_top_k,          \* argument top_k
    deduplicated,         \* the returned list
    dpc,                  \* control point of the deduplication
    \* SimplifiedRAGAgent.merge_chunks_by_doc_id
    rag_results,          \* argument chunks
    merged_docs,          \* the list returned
    mpc,                  \* control point of the merge
    \* MilvusVectorDatabase.search_chunks_multi_query
    mq_args,              \* the arguments and what the store returns per fragment
    mq_i,                 \* number of fragments the loop has processed
    all_results,          \* all_results: the merged set, then the list returned
    mqpc,                 \* control point of the multi-query search
    \* MilvusVectorDatabase.add_documents and _add_chunk_level
    segments,             \* add_documents: argument segments (doc_id and number of chunks)
    chunk_collection,     \* self.chunk_collection: the stored chunks
    entities,             \* _add_chunk_level: the chunks of this call (all_chunks, entities)
    total_inserted,       \* chunks of this call inserted so far
    ingest_runs,          \* history: calls of add_documents made
    insert_failures,      \* history: batch inserts that raised
    load_retry,           \* load attempts made after a flush timeout
    waited,               \* history: seconds spent in timed-out joins and sleeps
    ipc,                  \* control point of add_documents
    \* MilvusVectorDatabase.get_existing_title_timestamp_pairs
    title_records,        \* the records of the collection (title, timestamp)
    offset,               \* offset of the next paged query
    existing_pairs,       \* the set being collected, then returned
    query_rejected,       \* history: the store rejected a paged query
    ppc,                  \* control point of get_existing_title_timestamp_pairs
    \* utils.reranker.get_reranker
    _reranker_instance,   \* utils.reranker._reranker_instance
    _manual_reranker_instance,\* utils.reranker_manual._manual_reranker_instance
    manual_reranker,      \* get_reranker: each thread's local manual_reranker
    rpc,                  \* each thread's control point in get_reranker
    calls_made,           \* history: calls of get_reranker each thread has made
    constructed,          \* history: the instances constructed, in order
    returned              \* history: the instances get_reranker has returned

chunkerVars == <<cfg, doc_id, content, paragraphs, para_i, current_chunk_parts,
                 current_chunk_size, chunk_idx, chunks, remaining, overlap_seeds,
                 buffer_seed, cpc>>

searchVars == <<store, args, hits, formatted_results, rerank_outcome, search_result, spc>>

dedupVars == <<policy_timestamp, dedup_top_k, deduplicated, dpc>>

mergeVars == <<rag_results, merged_docs, mpc>>

multiVars == <<mq_args, mq_i, all_results, mqpc>>

ingestVars == <<segments, chunk_collection, entities, total_inserted,
                ingest_runs, insert_failures, load_retry, waited, ipc>>

pagingVars == <<title_records, offset, existing_pairs, query_rejected, ppc>>

singletonVars == <<_reranker_instance, _manual_reranker_instance,
                   manual_reranker, rpc, calls_made, constructed, returned>>

vars == <<chunkerVars, searchVars, dedupVars, mergeVars, multiVars,
          ingestVars, pagingVars, singletonVars>>

\* What a step of one component leaves alone.
notChunker == <<searchVars, dedupVars, mergeVars, multiVars, ingestVars,
                pagingVars, singletonVars>>
notRetrieval == <<chunkerVars, mergeVars, multiVars, ingestVars, pagingVars,
                  singletonVars>>
notMerge == <<chunkerVars, searchVars, dedupVars, multiVars, ingestVars,
              pagingVars, singletonVars>>
notMulti == <<chunkerVars, searchVars, dedupVars, mergeVars, ingestVars,
              pagingVars, singletonVars>>
notIngest == <<chunkerVars, searchVars, dedupVars, mergeVars, multiVars,
               pagingVars, singletonVars>>
notPaging == <<chunkerVars, searchVars, dedupVars, mergeVars, multiVars,
               ingestVars, singletonVars>>
notSingleton == <<chunkerVars, searchVars, dedupVars, mergeVars, multiVars,
                  ingestVars, pagingVars>>

\* A timestamp argument that is None: a datetime without fields.
NoTimestamp == [none |-> TRUE]

\* A component no call of which is in progress.

IdleChunker ==
    /\ cfg = None /\ doc_id = None /\ content = <<>> /\ paragraphs = <<>>
    /\ para_i = 1 /\ current_chunk_parts = <<>> /\ current_chunk_size = 0
    /\ chunk_idx = 0 /\ chunks = <<>> /\ remaining = <<>> /\ overlap_seeds = <<>>
    /\ buffer_seed = 0 /\ cpc = "idle"

IdleSearch ==
    /\ store = <<>> /\ args = None /\ hits = <<>> /\ formatted_results = <<>>
    /\ rerank_outcome = None /\ search_result = <<>> /\ spc = "idle"

IdleDedup ==
    /\ policy_timestamp = NoTimestamp /\ dedup_top_k = 0 /\ deduplicated = <<>> /\ dpc = "idle"

IdleMerge ==
    /\ rag_results = <<>> /\ merged_docs = <<>> /\ mpc = "idle"

IdleMulti ==
    /\ mq_args = None /\ mq_i = 0 /\ all_results = <<>> /\ mqpc = "idle"

IdleIngest ==
    /\ segments = <<>> /\ chunk_collection = <<>> /\ entities = <<>>
    /\ total_inserted = 0 /\ ingest_runs = 0 /\ insert_failures = 0
    /\ load_retry = 0 /\ waited = 0 /\ ipc = "idle"

IdlePaging ==
    /\ title_records = <<>> /\ offset = 0 /\ existing_pairs = {}
    /\ query_rejected = FALSE /\ ppc = "idle"

IdleSingleton ==
    /\ _reranker_instance = None /\ _manual_reranker_instance = None
    /\ manual_reranker = <<>> /\ rpc = <<>> /\ calls_made = <<>>
    /\ constructed = <<>> /\ returned = {}

-----------------------------------------------------------------------------
(* PolicyDocumentChunker.chunk_document                                    *)

\* chunk_id = f"{doc_id}_chunk_{chunk_idx}"
ChunkId(d, idx) == <<d, "_chunk_", idx>>

DocumentChunk(idx, type, text) ==
    [chunk_id |-> ChunkId(doc_id, idx), doc_id |-> doc_id, chunk_index |-> idx,
     chunk_type |-> type, content |-> text]

\* Mutant: the oversize flush forgets to advance chunk_idx.
NextIdxStuck(idx) == idx

\* chunk_idx += 1
NextIdx(idx) == idx + 1

InitChunker ==
    /\ cfg \in Configs
    /\ doc_id \in DocIds
    /\ content \in Contents \cup {<<None>>}
    /\ paragraphs = <<>>
    /\ para_i = 1
    /\ current_chunk_parts = <<>>
    /\ current_chunk_size = 0
    /\ chunk_idx = 0
    /\ chunks = <<>>
    /\ remaining = <<>>
    /\ overlap_seeds = <<>>
    /\ buffer_seed = 0
    /\ cpc = "split"
    /\ IdleSearch
    /\ IdleDedup
    /\ IdleMerge
    /\ IdleMulti
    /\ IdleIngest
    /\ IdlePaging
    /\ IdleSingleton

\* paragraphs = self._split_into_paragraphs(content), and the loop set-up.
\* re.split raises TypeError on a content that is not a string (None), and
\* nothing in chunk_document catches it.
SplitParagraphs ==
    /\ cpc = "split"
    /\ IF content = <<None>>
       THEN paragraphs' = paragraphs /\ cpc' = "raised"
       ELSE paragraphs' = _split_into_paragraphs(content) /\ cpc' = "loop"
    /\ UNCHANGED <<cfg, doc_id, content, para_i, current_chunk_parts, current_chunk_size,
                   chunk_idx, chunks, remaining, overlap_seeds, buffer_seed>>
    /\ UNCHANGED notChunker

\* A paragraph longer than absolute_max: flush the buffer, enter the while loop.
LongParagraphBegin ==
    /\ cpc = "loop"
    /\ para_i <= Len(paragraphs)
    /\ Len(paragraphs[para_i]) > cfg.absolute_max
    /\ IF current_chunk_parts # <<>>
       THEN /\ chunks' = Append(chunks,
                    DocumentChunk(chunk_idx, "paragraph",
                        _smart_truncate(JoinParts(current_chunk_parts), cfg.absolute_max)))
            /\ overlap_seeds' = Append(overlap_seeds, buffer_seed)
            /\ chunk_idx' = NextIdx(chunk_idx)
       ELSE UNCHANGED <<chunks, overlap_seeds, chunk_idx>>
    /\ current_chunk_parts' = <<>>
    /\ current_chunk_size' = 0
    /\ buffer_seed' = 0
    /\ remaining' = paragraphs[para_i]
    /\ cpc' = "long"
    /\ UNCHANGED <<cfg, doc_id, content, paragraphs, para_i>>
    /\ UNCHANGED notChunker

\* One iteration of `while len(remaining) > 0`; the loop is left (continue)
\* when nothing remains.
LongParagraphStep ==
    /\ cpc = "long"
    /\ Len(remaining) > 0
    /\ LET chunk_part == IF Len(remaining) <= cfg.absolute_max THEN remaining
                         ELSE _smart_truncate(remaining, cfg.absolute_max)
           rest == IF Len(remaining) <= cfg.absolute_max THEN <<>>
                   ELSE LStrip(Drop(remaining, Len(chunk_part)))
       IN  /\ remaining' = rest
           /\ IF chunk_part # <<>>
              THEN /\ chunks' = Append(chunks, DocumentChunk(chunk_idx, "paragraph", chunk_part))
                   /\ overlap_seeds' = Append(overlap_seeds, 0)
                   /\ chunk_idx' = NextIdx(chunk_idx)
              ELSE UNCHANGED <<chunks, overlap_seeds, chunk_idx>>
           /\ IF Len(rest) = 0
              THEN cpc' = "loop" /\ para_i' = para_i + 1
              ELSE UNCHANGED <<cpc, para_i>>
    /\ UNCHANGED <<cfg, doc_id, content, paragraphs, current_chunk_parts,
                   current_chunk_size, buffer_seed>>
    /\ UNCHANGED notChunker

\* The loop body for a paragraph within absolute_max: the flush before a new
\* chunk with its overlap seed, the append, and the oversize flush.
AccumulateParagraph ==
    /\ cpc = "loop"
    /\ para_i <= Len(paragraphs)
    /\ Len(paragraphs[para_i]) <= cfg.absolute_max
    /\ LET para      == paragraphs[para_i]
           para_size == Len(para)
           is_clause == _is_clause_start(para)
           should_start_new ==
               \/ is_clause
               \/ current_chunk_size + para_size > cfg.chunk_size_target
               \/ (current_chunk_size > 0
                   /\ current_chunk_size + para_size > cfg.chunk_size_max)
           flush == should_start_new /\ current_chunk_parts # <<>>
           flushed ==
               DocumentChunk(chunk_idx,
                   IF \E i \in 1..Len(current_chunk_parts) :
                          _is_clause_start(current_chunk_parts[i])
                   THEN "clause" ELSE "paragraph",
                   _smart_truncate(JoinParts(current_chunk_parts), cfg.absolute_max))
           chunks1 == IF flush THEN Append(chunks, flushed) ELSE chunks
           seeds1  == IF flush THEN Append(overlap_seeds, buffer_seed) ELSE overlap_seeds
           idx1    == IF flush THEN NextIdx(chunk_idx) ELSE chunk_idx
           last_part == current_chunk_parts[Len(current_chunk_parts)]
           overlap_text == IF Len(last_part) > cfg.overlap
                           THEN _extract_overlap_text(last_part, cfg.overlap)
                           ELSE last_part
           seeded == flush /\ cfg.overlap > 0 /\ overlap_text # <<>>
           parts1 == IF flush
                     THEN IF seeded THEN <<overlap_text, para>> ELSE <<para>>
                     ELSE Append(current_chunk_parts, para)
           size1  == IF flush
                     THEN IF seeded THEN Len(overlap_text) + para_size ELSE para_size
                     ELSE current_chunk_size + para_size
           seed1  == IF flush
                     THEN IF seeded THEN Len(overlap_text) ELSE 0
                     ELSE buffer_seed
           oversize == size1 > cfg.chunk_size_max
           oversized ==
               DocumentChunk(idx1, "paragraph",
                   _smart_truncate(JoinParts(parts1), cfg.absolute_max))
       IN  /\ chunks' = IF oversize THEN Append(chunks1, oversized) ELSE chunks1
           /\ overlap_seeds' = IF oversize THEN Append(seeds1, seed1) ELSE seeds1
           /\ chunk_idx' = IF oversize THEN NextIdx(idx1) ELSE idx1
           /\ current_chunk_parts' = IF oversize THEN <<>> ELSE parts1
           /\ current_chunk_size' = IF oversize THEN 0 ELSE size1
           /\ buffer_seed' = IF oversize THEN 0 ELSE seed1
    /\ para_i' = para_i + 1
    /\ UNCHANGED <<cfg, doc_id, content, paragraphs, remaining, cpc>>
    /\ UNCHANGED notChunker

\* After the loop: the last buffer is emitted, then every chunk is verified
\* against absolute_max and truncated if it violates it.
FinalFlush ==
    /\ cpc = "loop"
    /\ para_i > Len(paragraphs)
    /\ LET last == DocumentChunk(chunk_idx, "paragraph",
                       _smart_truncate(JoinParts(current_chunk_parts), cfg.absolute_max))
           all  == IF current_chunk_parts # <<>> THEN Append(chunks, last) ELSE chunks
       IN  /\ chunks' = [i \in 1..Len(all) |->
                           IF Len(all[i].content) > cfg.absolute_max
                           THEN [all[i] EXCEPT !.content =
                                    _smart_truncate(all[i].content, cfg.absolute_max)]
                           ELSE all[i]]
           /\ overlap_seeds' = IF current_chunk_parts # <<>>
                               THEN Append(overlap_seeds, buffer_seed) ELSE overlap_seeds
    /\ cpc' = "done"
    /\ UNCHANGED <<cfg, doc_id, content, paragraphs, para_i, current_chunk_parts,
                   current_chunk_size, chunk_idx, remaining, buffer_seed>>
    /\ UNCHANGED notChunker

NextChunker ==
    \/ SplitParagraphs
    \/ LongParagraphBegin
    \/ LongParagraphStep
    \/ AccumulateParagraph
    \/ FinalFlush

SpecChunker == InitChunker /\ [][NextChunker]_vars

-----------------------------------------------------------------------------
(* MilvusVectorDatabase.search_chunks                                      *)
(* Scores are integers in units of 1/ScoreUnit, distances in tenths: the   *)
(* similarity 1 - d^2/2 and the time bonuses 0.1 * (1 - n/365) and         *)
(* 0.03 * (1 - (n - 365)/730) are then exact integers.                     *)

ScoreUnit == 200 * 365

\* The largest number of passages in the collection.
MaxStored == 3

\* similarity = max(0.0, min(1.0, 1.0 - l2_distance ** 2 / 2.0))
Similarity(distance) == Max(0, Min(ScoreUnit, ScoreUnit - 365 * distance * distance))

\* Scores the reranking model may give a (query, passage) pair; the manually
\* loaded model returns raw logits, which may be negative.
RerankScoreSet == {0 - ScoreUnit \div 2, ScoreUnit}

\* _add_chunk_level: the entity stored for a chunk of a document
\* (content and the classification fields pass through unchanged and are
\* left out).
Entity(doc, index, distance) ==
    [chunk_id |-> ChunkId(doc.doc_id, index), doc_id |-> doc.doc_id,
     chunk_index |-> index, title |-> doc.title,
     timestamp |-> StoredTimestamp(doc), distance |-> distance]

\* The collection for a sequence of documents and distances: passage i is
\* the next chunk of its document.
Collection(docs, dists) ==
    [i \in 1..Len(docs) |->
        Entity(docs[i], Cardinality({j \in 1..(i - 1) : docs[j] = docs[i]}), dists[i])]

NonDecreasing(ds) == \A i \in 1..(Len(ds) - 1) : ds[i] <= ds[i + 1]

\* final_top_k = rerank_top_k if use_reranker else top_k, after rerank_top_k
\* defaulted to top_k
FinalTopKAlwaysRerankTopK(a) ==
    IF Passed(a, "rerank_top_k") THEN a.rerank_top_k ELSE a.top_k

FinalTopK(a) ==
    LET rerank_top_k == IF Passed(a, "rerank_top_k") THEN a.rerank_top_k ELSE a.top_k
    IN  IF a.use_reranker THEN rerank_top_k ELSE a.top_k

\* The filter expression built from before_timestamp, after_timestamp and
\* allow_same_day, as the store evaluates it on a stored timestamp.
FilterExpr(timestamp, a) ==
    /\ Passed(a, "before_timestamp") =>
          LET ts_str == IsoFormat(a.before_timestamp)
          IN  IF a.allow_same_day
              THEN LexLeq(timestamp, Take(ts_str, DateWidth))
              ELSE LexLt(timestamp, Take(ts_str, DateWidth))
    /\ Passed(a, "after_timestamp") =>
          LET after_ts_str == IsoFormat(a.after_timestamp)
          IN  LexLeq(Take(after_ts_str, DateWidth), timestamp)

\* chunk_collection.search(limit = retrieval_top_k, expr = filter_expr): the
\* nearest passages that satisfy the expression, nearest first.
CollectionSearch(st, a) ==
    Take(SelectSeq(st, LAMBDA e : FilterExpr(e.timestamp, a)), a.top_k)

\* Mutant: only the doc_id exclusion is applied.
IsExcludedDocIdOnly(hit, a) ==
    Passed(a, "exclude_doc_id") /\ hit.doc_id = a.exclude_doc_id

\* The two `continue`s of the formatting loop: the hit is the excluded
\* document, or has the excluded title and the excluded date.
IsExcluded(hit, a) ==
    LET exclude_timestamp_date ==
            IF Passed(a, "exclude_title") /\ Passed(a, "exclude_timestamp")
            THEN a.exclude_timestamp.day ELSE NoDate
    IN  \/ (Passed(a, "exclude_doc_id") /\ hit.doc_id = a.exclude_doc_id)
        \/ /\ Passed(a, "exclude_title")
           /\ exclude_timestamp_date # NoDate
           /\ hit.title = a.exclude_title
           /\ hit.timestamp # <<>>
           /\ ParseDate(hit.timestamp) # NoDate
           /\ ParseDate(hit.timestamp) = exclude_timestamp_date

FormatHit(hit) ==
    [chunk_id |-> hit.chunk_id, doc_id |-> hit.doc_id,
     similarity |-> Similarity(hit.distance), chunk_index |-> hit.chunk_index,
     title |-> hit.title, timestamp |-> hit.timestamp]

FormatResults(hs, a) ==
    LET kept == SelectSeq(hs, LAMBDA h : ~IsExcluded(h, a))
    IN  [i \in 1..Len(kept) |-> FormatHit(kept[i])]

\* result[field] = value
SetField(r, field, value) ==
    [f \in DOMAIN r \cup {field} |-> IF f = field THEN value ELSE r[f]]

\* Mutant: the fallback paths return every candidate.
RerankFallbackUntruncated(results, top_k, outcome, scores) ==
    IF outcome = "scored"
    THEN Take(SortDesc([i \in 1..Len(results) |->
                 SetField(SetField(results[i], "rerank_score", scores[i]),
                          "original_rank", i)], "rerank_score"),
              top_k)
    ELSE [i \in 1..Len(results) |->
             SetField(SetField(results[i], "rerank_score", 0), "original_rank", i)]

\* Mutant: the scores are attached but the candidates are not sorted.
RerankUnsorted(results, top_k, outcome, scores) ==
    Take([i \in 1..Len(results) |->
             SetField(SetField(results[i], "rerank_score",
                               IF outcome = "scored" THEN scores[i] ELSE 0),
                      "original_rank", i)],
         top_k)

\* BCEReranker.rerank / ManualBCEReranker.rerank.  outcome is what the model
\* did: "scored" (scores[i] for candidate i), "disabled" (the model did not
\* load) or "predict_raises" (inference threw).
Rerank(results, top_k, outcome, scores) ==
    IF outcome = "disabled"
    THEN Take([i \in 1..Len(results) |->
                 SetField(SetField(results[i], "rerank_score", 0), "original_rank", i)],
              top_k)
    ELSE IF results = <<>> THEN <<>>
    ELSE IF outcome = "scored"
    THEN Take(SortDesc([i \in 1..Len(results) |->
                 SetField(SetField(results[i], "rerank_score", scores[i]),
                          "original_rank", i)], "rerank_score"),
              top_k)
    ELSE Take([i \in 1..Len(results) |->
                 SetField(SetField(results[i], "rerank_score",
                                   Get(results[i], "rerank_score", 0)),
                          "original_rank", Get(results[i], "original_rank", i))],
              top_k)

RerankOutcomes == {"scored", "disabled", "predict_raises", "unavailable"}

\* search_chunks(query_text, **args): coarse recall with the time filter, the
\* exclusions, and the reranking stage or the truncation.  self.model.encode
\* and chunk_collection.search are called outside every try block: when
\* either raises, the exception leaves search_chunks.
SearchChunks ==
    /\ spc = "call"
    /\ \/ /\ spc' = "raised"
          /\ UNCHANGED <<hits, formatted_results, rerank_outcome, search_result>>
       \/ /\ LET final_top_k == FinalTopK(args)
                 results   == CollectionSearch(store, args)
                 formatted == FormatResults(results, args)
             IN  /\ hits' = results
                 /\ formatted_results' = formatted
                 /\ IF args.use_reranker /\ Len(formatted) > final_top_k
                    THEN \E outcome \in RerankOutcomes :
                         \E scores \in [1..Len(formatted) -> RerankScoreSet] :
                             /\ outcome # "scored" =>
                                    \A i \in 1..Len(formatted) : scores[i] = ScoreUnit
                             /\ rerank_outcome' = outcome
                             /\ search_result' =
                                    IF outcome = "unavailable"
                                    THEN Take(formatted, final_top_k)
                                    ELSE Rerank(formatted, final_top_k, outcome, scores)
                    ELSE /\ rerank_outcome' = "skipped"
                         /\ search_result' = Take(formatted, final_top_k)
          /\ spc' = "done"
    /\ UNCHANGED <<store, args>>
    /\ UNCHANGED <<notRetrieval, dedupVars>>

-----------------------------------------------------------------------------
(* Inputs of search_chunks.                                                *)

\* The querying document and the documents the collection may hold: the
\* querying document under its own and under another doc_id, other
\* documents dated the day before, the same day and the day after, and an
\* earlier document with the same title.
Day(n) == [day |-> n, tod |-> 0]

Segment == [doc_id |-> "d1", title |-> "t1", timestamp |-> [day |-> 5, tod |-> 1]]

StoredDocs ==
    { [doc_id |-> "d1", title |-> "t1", timestamp |-> Day(5)],
      [doc_id |-> "d2", title |-> "t1", timestamp |-> Day(5)],
      [doc_id |-> "d3", title |-> "t2", timestamp |-> Day(4)],
      [doc_id |-> "d4", title |-> "t2", timestamp |-> Day(5)],
      [doc_id |-> "d5", title |-> "t2", timestamp |-> Day(6)],
      [doc_id |-> "d6", title |-> "t1", timestamp |-> Day(4)] }

\* L2 distances, in tenths.
Distances == {2, 6}

Collections(Docs, Dists) ==
    UNION { { Collection(docs, dists) :
                dists \in {ds \in [1..Len(docs) -> Dists] : NonDecreasing(ds)} } :
            docs \in SeqsUpTo(Docs, MaxStored) }

\* Keyword arguments: an argument passed (TRUE) or left at its default None.
Kw(field, passed, value) == IF passed THEN field :> value ELSE <<>>

SearchArgs(top_k, use_reranker, allow_same_day, kwargs) ==
    [top_k |-> top_k, use_reranker |-> use_reranker,
     allow_same_day |-> allow_same_day] @@ kwargs

Exclude(segment, doc, title_and_date) ==
    Kw("exclude_doc_id", doc, segment.doc_id)
        @@ Kw("exclude_title", title_and_date, segment.title)
        @@ Kw("exclude_timestamp", title_and_date, segment.timestamp)

\* Calls that vary the time filter and the exclusions, without reranking.
FilterCalls ==
    { SearchArgs(MaxStored, FALSE, al,
                 Exclude(Segment, ed, ex) @@ Kw("before_timestamp", b, Segment.timestamp)
                                 @@ Kw("after_timestamp", af, Segment.timestamp)) :
        ed \in BOOLEAN, ex \in BOOLEAN, b \in BOOLEAN, af \in BOOLEAN,
        al \in BOOLEAN }

\* Calls that vary the two result sizes and the reranking switch.
RankCalls ==
    { SearchArgs(MaxStored, ur, FALSE, Kw("rerank_top_k", rk > 0, rk)) :
        rk \in 0..2, ur \in BOOLEAN }

\* The call NoveltyAgent._search_by_topic_with_time makes for a segment
\* (top_k = 500 and rerank_top_k = 100 scaled down to the collection).
TopicSearchArgs(segment, rerank_top_k) ==
    SearchArgs(MaxStored, TRUE, TRUE,
               Exclude(segment, TRUE, TRUE)
                   @@ Kw("before_timestamp", TRUE, segment.timestamp)
                   @@ Kw("rerank_top_k", TRUE, rerank_top_k))

AgentCalls == { TopicSearchArgs(Segment, rk) : rk \in 1..2 }

InitSearch ==
    /\ store \in Collections(StoredDocs, Distances)
    /\ args \in FilterCalls \cup RankCalls \cup AgentCalls
    /\ hits = <<>>
    /\ formatted_results = <<>>
    /\ rerank_outcome = None
    /\ search_result = <<>>
    /\ spc = "call"
    /\ IdleChunker
    /\ IdleDedup
    /\ IdleMerge
    /\ IdleMulti
    /\ IdleIngest
    /\ IdlePaging
    /\ IdleSingleton

NextSearch ==
    \/ SearchChunks

SpecSearch == InitSearch /\ [][NextSearch]_vars

-----------------------------------------------------------------------------
(* NoveltyAgent._deduplicate_chunks, called on the result of search_chunks *)
(* by _search_by_topic_with_time.                                          *)

\* key = (title, timestamp)
DedupKey(chunk) == <<Get(chunk, "title", <<>>), Get(chunk, "timestamp", <<>>)>>

\* Mutant: a later candidate with an equal score replaces the kept one.
ReplacesOnTie(rerank_score, kept) == rerank_score >= Get(kept, "rerank_score", 0)

\* rerank_score > seen[key].get('rerank_score', 0)
Replaces(rerank_score, kept) == rerank_score > Get(kept, "rerank_score", 0)

\* The position of key among the kept candidates, 0 when it is not there.
SeenPos(chunk_results, seen, key) ==
    LET found == {j \in 1..Len(seen) : DedupKey(chunk_results[seen[j]]) = key}
    IN  IF found = {} THEN 0 ELSE CHOOSE j \in found : TRUE

\* The dict `seen` after the first n candidates, as the indexes of the kept
\* candidates in insertion order of their keys.
RECURSIVE Seen(_, _)
Seen(chunk_results, n) ==
    IF n = 0 THEN <<>>
    ELSE LET seen  == Seen(chunk_results, n - 1)
             chunk == chunk_results[n]
             pos   == SeenPos(chunk_results, seen, DedupKey(chunk))
         IN  IF pos = 0 THEN Append(seen, n)
             ELSE IF Replaces(Get(chunk, "rerank_score", 0), chunk_results[seen[pos]])
                  THEN [seen EXCEPT ![pos] = n]
                  ELSE seen

\* The two tiers of the time bonus, in units of 1/ScoreUnit:
\* 0.1 * (1 - days_diff / 365) and 0.03 * (1 - (days_diff - 365) / 730).
TierOneDays == 365
TierTwoDays == 1095

TimeBonus(timestamp, reference) ==
    IF timestamp # <<>> /\ reference # NoTimestamp /\ ParseDate(timestamp) # NoDate
    THEN LET days_diff == reference.day - ParseDate(timestamp)
         IN  IF days_diff <= TierOneDays THEN 20 * (TierOneDays - days_diff)
             ELSE IF days_diff <= TierTwoDays THEN 3 * (TierTwoDays - days_diff)
             ELSE 0
    ELSE 0

\* Mutant: the bonus is added to the score the candidate already carries.
WeightedOnTop(chunk, reference) ==
    LET time_bonus == TimeBonus(Get(chunk, "timestamp", <<>>), reference)
    IN  SetField(SetField(chunk, "time_bonus", time_bonus), "final_score",
                 Get(chunk, "final_score", Get(chunk, "rerank_score", 0)) + time_bonus)

\* chunk['time_bonus'] = time_bonus
\* chunk['final_score'] = chunk.get('rerank_score', 0.0) + time_bonus
Weighted(chunk, reference) ==
    LET time_bonus == TimeBonus(Get(chunk, "timestamp", <<>>), reference)
    IN  SetField(SetField(chunk, "time_bonus", time_bonus),
                 "final_score", Get(chunk, "rerank_score", 0) + time_bonus)

\* The list _deduplicate_chunks returns: the kept candidates, weighted,
\* sorted by final_score and cut to top_k.
_deduplicate_chunks(chunk_results, reference, top_k) ==
    LET seen    == Seen(chunk_results, Len(chunk_results))
        results == [j \in 1..Len(seen) |-> Weighted(chunk_results[seen[j]], reference)]
    IN  Take(SortDesc(results, "final_score"), top_k)

\* _deduplicate_chunks(chunk_results = the search result, policy_timestamp,
\* top_k).  The kept candidates are weighted in place, so the caller's list
\* sees the two new fields.
Deduplicate ==
    /\ spc = "done" /\ dpc = "call"
    /\ LET seen == Seen(search_result, Len(search_result))
       IN  /\ deduplicated' =
                 _deduplicate_chunks(search_result, policy_timestamp, dedup_top_k)
           /\ search_result' =
                 [i \in 1..Len(search_result) |->
                     IF \E j \in 1..Len(seen) : seen[j] = i
                     THEN Weighted(search_result[i], policy_timestamp)
                     ELSE search_result[i]]
    /\ dpc' = "done"
    /\ UNCHANGED <<store, args, hits, formatted_results, rerank_outcome, spc>>
    /\ UNCHANGED <<policy_timestamp, dedup_top_k>>
    /\ UNCHANGED notRetrieval

\* The segment under analysis and the earlier documents in the collection,
\* dated 30, 300, 365, 366 and 400 days before it.  Dates are day numbers.
Today == 1100

TopicSegment ==
    [doc_id |-> "d0", title |-> "t0", timestamp |-> [day |-> Today, tod |-> 1]]

EarlierDocs ==
    { [doc_id |-> "d1", title |-> "t1", timestamp |-> Day(Today - 30)],
      [doc_id |-> "d2", title |-> "t2", timestamp |-> Day(Today - 300)],
      [doc_id |-> "d3", title |-> "t3", timestamp |-> Day(Today - 365)],
      [doc_id |-> "d4", title |-> "t4", timestamp |-> Day(Today - 366)],
      [doc_id |-> "d5", title |-> "t5", timestamp |-> Day(Today - 400)] }

InitDedup ==
    /\ store \in Collections(EarlierDocs, Distances)
    /\ args \in { TopicSearchArgs(TopicSegment, rk) : rk \in 1..2 }
    /\ hits = <<>>
    /\ formatted_results = <<>>
    /\ rerank_outcome = None
    /\ search_result = <<>>
    /\ spc = "call"
    /\ policy_timestamp = TopicSegment.timestamp
    /\ dedup_top_k \in {1, MaxStored}
    /\ deduplicated = <<>>
    /\ dpc = "call"
    /\ IdleChunker
    /\ IdleMerge
    /\ IdleMulti
    /\ IdleIngest
    /\ IdlePaging
    /\ IdleSingleton

\* The except clause of _search_by_topic_with_time: an exception of
\* search_chunks is logged and the topic gets no results.
TopicSearchFailed ==
    /\ spc = "raised" /\ dpc = "call"
    /\ deduplicated' = <<>>
    /\ dpc' = "failed"
    /\ UNCHANGED <<searchVars, policy_timestamp, dedup_top_k>>
    /\ UNCHANGED notRetrieval

NextDedup ==
    \/ SearchChunks
    \/ Deduplicate
    \/ TopicSearchFailed

SpecDedup == InitDedup /\ [][NextDedup]_vars

\* _deduplicate_chunks as a function of its arguments: candidate lists of up
\* to MaxCallCandidates candidates whose timestamp is later than the
\* reference (LaterDays days), on its day, 30, 400 or 1200 days before it,
\* not a date, empty, or missing; with and without a reference timestamp.
MaxCallCandidates == 2
LaterDays == 10

CallTimestamps ==
    { IsoFormat(Day(Today + LaterDays)), IsoFormat(Day(Today)),
      IsoFormat(Day(Today - 30)), IsoFormat(Day(Today - 400)),
      IsoFormat(Day(Today - 1200)), <<1, 2>>, <<>> }

CallCandidates ==
    { [title |-> t, timestamp |-> ts, similarity |-> ScoreUnit \div 2] :
          t \in {"t1", "t2"}, ts \in CallTimestamps }
    \cup { [title |-> t, similarity |-> ScoreUnit \div 2] : t \in {"t1", "t2"} }

CallLists ==
    UNION { [1..n -> CallCandidates] : n \in 0..MaxCallCandidates }

InitDedupCall ==
    /\ store = <<>>
    /\ args = TopicSearchArgs(TopicSegment, 1)
    /\ hits = <<>>
    /\ formatted_results = <<>>
    /\ rerank_outcome = None
    /\ search_result \in CallLists
    /\ spc = "done"
    /\ policy_timestamp \in {TopicSegment.timestamp, NoTimestamp}
    /\ dedup_top_k \in {1, MaxStored}
    /\ deduplicated = <<>>
    /\ dpc = "call"
    /\ IdleChunker
    /\ IdleMerge
    /\ IdleMulti
    /\ IdleIngest
    /\ IdlePaging
    /\ IdleSingleton

NextDedupCall ==
    \/ Deduplicate

SpecDedupCall == InitDedupCall /\ [][NextDedupCall]_vars

-----------------------------------------------------------------------------
(* SimplifiedRAGAgent.merge_chunks_by_doc_id                               *)
(* Identifiers and contents are token sequences; a field that is missing   *)
(* from a dict is missing from the record.  The fields title, timestamp,   *)
(* industries, investment_relevance and report_series are copied from the  *)
(* first chunk of a group and are left out.                                *)

\* The Python value None as the value of a key, apart from every string.
NoneValue == <<None>>

\* A dict as the sequence of its items [k, v] in insertion order.
KeyPos(dict, key) ==
    LET found == {j \in 1..Len(dict) : dict[j].k = key}
    IN  IF found = {} THEN 0 ELSE CHOOSE j \in found : TRUE

\* dict[key] = value: a new key goes to the end, a known key keeps its place
Put(dict, key, value) ==
    IF KeyPos(dict, key) = 0 THEN Append(dict, [k |-> key, v |-> value])
    ELSE [dict EXCEPT ![KeyPos(dict, key)] = [k |-> key, v |-> value]]

\* list(dict.values())
Values(dict) == [j \in 1..Len(dict) |-> dict[j].v]

\* doc_id and str(doc_id).strip()
HasDocId(chunk) ==
    LET id == Get(chunk, "doc_id", NoneValue)
    IN  id # NoneValue /\ id # <<>> /\ Strip(id) # <<>>

\* docs_by_id after the first n chunks: doc_id -> the chunks that carry it
RECURSIVE DocsById(_, _)
DocsById(cs, n) ==
    IF n = 0 THEN <<>>
    ELSE LET prev == DocsById(cs, n - 1)
         IN  IF ~HasDocId(cs[n]) THEN prev
             ELSE IF KeyPos(prev, cs[n].doc_id) = 0
                  THEN Put(prev, cs[n].doc_id, <<cs[n]>>)
                  ELSE Put(prev, cs[n].doc_id,
                           Append(prev[KeyPos(prev, cs[n].doc_id)].v, cs[n]))

\* chunks_without_doc_id
ChunksWithoutDocId(cs) == SelectSeq(cs, LAMBDA c : ~HasDocId(c))

\* chunk.get('similarity', 0) > unique_chunks[chunk_id].get('similarity', 0)
MoreSimilar(chunk, kept) == Get(chunk, "similarity", 0) > Get(kept, "similarity", 0)

\* unique_chunks after the first n chunks of a group: chunk_id -> chunk
RECURSIVE UniqueChunks(_, _)
UniqueChunks(doc_chunks, n) ==
    IF n = 0 THEN <<>>
    ELSE LET prev     == UniqueChunks(doc_chunks, n - 1)
             chunk    == doc_chunks[n]
             chunk_id == Get(chunk, "chunk_id", NoneValue)
             pos      == KeyPos(prev, chunk_id)
         IN  IF pos = 0 THEN Put(prev, chunk_id, chunk)
             ELSE IF MoreSimilar(chunk, prev[pos].v) THEN Put(prev, chunk_id, chunk)
             ELSE prev

\* list.sort(key = lambda x: x.get('chunk_index', 0)): stable and ascending
RECURSIVE InsertByIndex(_, _)
InsertByIndex(sorted, x) ==
    IF sorted = <<>> THEN <<x>>
    ELSE IF Get(Head(sorted), "chunk_index", 0) <= Get(x, "chunk_index", 0)
         THEN <<Head(sorted)>> \o InsertByIndex(Tail(sorted), x)
         ELSE <<x>> \o sorted

\* Mutant: the chunks stay in the order of arrival.
SortByIndexSkipped(s) == s

RECURSIVE SortByIndex(_)
SortByIndex(s) ==
    IF s = <<>> THEN <<>>
    ELSE InsertByIndex(SortByIndex(SubSeq(s, 1, Len(s) - 1)), s[Len(s)])

\* merged_content: every non-empty content followed by a blank line, stripped
MergedContent(cs) ==
    Strip(Concat([i \in 1..Len(cs) |->
                     IF Get(cs[i], "content", <<>>) # <<>>
                     THEN cs[i].content \o <<NL, NL>> ELSE <<>>]))

RECURSIVE SumSimilarity(_)
SumSimilarity(cs) ==
    IF cs = <<>> THEN 0 ELSE Get(Head(cs), "similarity", 0) + SumSimilarity(Tail(cs))

\* Averages are kept in units of 1/AvgScale, which every group size divides.
AvgScale == 60

\* sum(similarities) / len(similarities) if similarities else 0
AvgSimilarity(cs) ==
    IF cs = <<>> THEN 0 ELSE (AvgScale * SumSimilarity(cs)) \div Len(cs)

\* The group built for one doc_id.
MergedDoc(id, chunks_of_doc) ==
    LET doc_chunks == SortByIndex(Values(UniqueChunks(chunks_of_doc, Len(chunks_of_doc))))
    IN  [doc_id |-> id, content |-> MergedContent(doc_chunks),
         chunk_count |-> Len(doc_chunks), avg_similarity |-> AvgSimilarity(doc_chunks),
         similarity |-> AvgSimilarity(doc_chunks), chunks |-> doc_chunks]

\* The group built for a chunk without doc_id.
SingleDoc(chunk) ==
    [doc_id |-> Get(chunk, "chunk_id", <<>>), content |-> Get(chunk, "content", <<>>),
     chunk_count |-> 1, avg_similarity |-> AvgScale * Get(chunk, "similarity", 0),
     similarity |-> AvgScale * Get(chunk, "similarity", 0), chunks |-> <<chunk>>]

\* {c.get('chunk_id'): c for c in chunks}, continued from dict
RECURSIVE ByChunkId(_, _)
ByChunkId(dict, cs) ==
    IF cs = <<>> THEN dict
    ELSE ByChunkId(Put(dict, Get(Head(cs), "chunk_id", NoneValue), Head(cs)), Tail(cs))

\* The entry that replaces `existing` when a second group has its doc_id.
Combined(id, existing, doc) ==
    LET all_chunks == Values(ByChunkId(ByChunkId(<<>>, existing.chunks), doc.chunks))
    IN  [doc_id |-> id, content |-> MergedContent(SortByIndex(all_chunks)),
         chunk_count |-> Len(all_chunks), avg_similarity |-> AvgSimilarity(all_chunks),
         similarity |-> AvgSimilarity(all_chunks), chunks |-> all_chunks]

\* unique_docs after the first n groups: stripped doc_id -> group; groups
\* whose stripped doc_id is empty are passed over.
RECURSIVE UniqueDocs(_, _)
UniqueDocs(docs, n) ==
    IF n = 0 THEN <<>>
    ELSE LET prev == UniqueDocs(docs, n - 1)
             id   == Strip(docs[n].doc_id)
             pos  == KeyPos(prev, id)
         IN  IF id = <<>> THEN prev
             ELSE IF pos = 0 THEN Put(prev, id, docs[n])
             ELSE Put(prev, id, Combined(id, prev[pos].v, docs[n]))

\* merge_chunks_by_doc_id(chunks).  doc.get('doc_id', '').strip() raises
\* AttributeError when a chunk without doc_id has chunk_id None.
MergeChunksByDocId ==
    /\ mpc = "call"
    /\ LET by_id   == DocsById(rag_results, Len(rag_results))
           without == ChunksWithoutDocId(rag_results)
           merged  == SortDesc([j \in 1..Len(by_id) |-> MergedDoc(by_id[j].k, by_id[j].v)]
                                   \o [j \in 1..Len(without) |-> SingleDoc(without[j])],
                               "avg_similarity")
       IN  IF rag_results = <<>>
           THEN merged_docs' = <<>> /\ mpc' = "done"
           ELSE IF \E j \in 1..Len(merged) : merged[j].doc_id = NoneValue
           THEN merged_docs' = <<>> /\ mpc' = "raised"
           ELSE /\ merged_docs' = SortDesc(Values(UniqueDocs(merged, Len(merged))),
                                           "avg_similarity")
                /\ mpc' = "done"
    /\ UNCHANGED rag_results
    /\ UNCHANGED notMerge

\* The largest number of chunks handed to merge_chunks_by_doc_id.
MaxCandidates == 3

Chunk(id, cid, index, sim, text) ==
    Kw("doc_id", id # NoneValue, id) @@ Kw("chunk_id", cid # NoneValue, cid)
        @@ [chunk_index |-> index, similarity |-> sim, content |-> text]

\* Chunks of documents "a" and "b", one of them under a repeated chunk_id
\* and one under a doc_id with a trailing blank; chunks without doc_id, one
\* whose chunk_id is the doc_id "a", one without chunk_id and one whose
\* chunk_id is None.
CandidatePool ==
    { Chunk(<<"a">>, <<"c">>, 0, 6, <<"p">>),
      Chunk(<<"a">>, <<"c">>, 0, 8, <<"q">>),
      Chunk(<<"a">>, <<"e">>, 1, 6, <<"r">>),
      Chunk(<<"a", SPACE>>, <<"c">>, 0, 6, <<"p">>),
      Chunk(<<"b">>, <<"c">>, 0, 8, <<>>),
      Chunk(NoneValue, <<"a">>, 0, 6, <<"p">>),
      Chunk(NoneValue, <<"e">>, 0, 8, <<"q">>),
      Chunk(NoneValue, NoneValue, 0, 6, <<"p">>),
      [chunk_id |-> NoneValue] @@ Chunk(NoneValue, NoneValue, 0, 8, <<"q">>) }

InitMerge ==
    /\ rag_results \in SeqsUpTo(CandidatePool, MaxCandidates)
    /\ merged_docs = <<>>
    /\ mpc = "call"
    /\ IdleChunker
    /\ IdleSearch
    /\ IdleDedup
    /\ IdleMulti
    /\ IdleIngest
    /\ IdlePaging
    /\ IdleSingleton

NextMerge ==
    \/ MergeChunksByDocId

SpecMerge == InitMerge /\ [][NextMerge]_vars

-----------------------------------------------------------------------------
(* MilvusVectorDatabase.search_chunks_multi_query                          *)
(* mq_args.query_hits[i] is what chunk_collection.search returns for the   *)
(* i-th fragment: at most top_k_per_query hits, nearest first.             *)

\* Mutant: a chunk_id that was seen keeps its first similarity.
MergeHitKeepsFirst(all, hit, i, a) ==
    IF \E k \in 1..Len(all) : all[k].chunk_id = hit.chunk_id THEN all
    ELSE Append(all, [chunk_id |-> hit.chunk_id, doc_id |-> hit.doc_id,
                      similarity |-> Similarity(hit.distance),
                      matched_by_query_chunk |-> i])

\* The body of the loop over the hits of fragment i (0-based): the hit is
\* skipped, appended, or raises the similarity of the entry with its chunk_id.
MergeHit(all, hit, i, a) ==
    LET similarity == Similarity(hit.distance)
        found      == {k \in 1..Len(all) : all[k].chunk_id = hit.chunk_id}
        k          == CHOOSE n \in found : \A m \in found : n <= m
    IN  IF Passed(a, "exclude_doc_id") /\ hit.doc_id = a.exclude_doc_id THEN all
        ELSE IF found = {}
        THEN Append(all, [chunk_id |-> hit.chunk_id, doc_id |-> hit.doc_id,
                          similarity |-> similarity, matched_by_query_chunk |-> i])
        ELSE IF similarity > all[k].similarity
        THEN [all EXCEPT ![k].similarity = similarity, ![k].matched_by_query_chunk = i]
        ELSE all

RECURSIVE MergeHits(_, _, _, _)
MergeHits(all, fragment_hits, i, a) ==
    IF fragment_hits = <<>> THEN all
    ELSE MergeHits(MergeHit(all, Head(fragment_hits), i, a), Tail(fragment_hits), i, a)

\* The guards, and the batch embedding of all fragments, which is called
\* outside every try block.
MultiQueryBegin ==
    /\ mqpc = "call"
    /\ \/ /\ mq_args.query_hits = <<>>
          /\ mqpc' = "done"
       \/ /\ mq_args.query_hits # <<>>
          /\ mqpc' \in {"loop", "encode_raised"}
    /\ UNCHANGED <<mq_args, mq_i, all_results>>
    /\ UNCHANGED notMulti

\* One iteration of the loop over the fragments; chunk_collection.search
\* is called outside every try block.
MultiQueryFragment ==
    /\ mqpc = "loop" /\ mq_i < Len(mq_args.query_hits)
    /\ \/ /\ mqpc' = "search_raised"
          /\ UNCHANGED <<mq_i, all_results>>
       \/ /\ all_results' = MergeHits(all_results, mq_args.query_hits[mq_i + 1], mq_i, mq_args)
          /\ mq_i' = mq_i + 1
          /\ mqpc' = "loop"
    /\ UNCHANGED mq_args
    /\ UNCHANGED notMulti

\* After the loop: the sort by similarity and the global reranking or the
\* truncation to final_top_k.
MultiQueryFinish ==
    /\ mqpc = "loop" /\ mq_i = Len(mq_args.query_hits)
    /\ LET sorted == SortDesc(all_results, "similarity")
       IN  IF mq_args.use_reranker /\ Passed(mq_args, "final_top_k")
                                   /\ Len(sorted) > mq_args.final_top_k
           THEN \E outcome \in RerankOutcomes :
                \E scores \in [1..Len(sorted) -> RerankScoreSet] :
                    /\ outcome # "scored" => \A n \in 1..Len(sorted) : scores[n] = ScoreUnit
                    /\ all_results' =
                           IF outcome = "unavailable"
                           THEN Take(sorted, mq_args.final_top_k)
                           ELSE Rerank(sorted, mq_args.final_top_k, outcome, scores)
           ELSE IF Passed(mq_args, "final_top_k")
           THEN all_results' = Take(sorted, mq_args.final_top_k)
           ELSE all_results' = sorted
    /\ mqpc' = "done"
    /\ UNCHANGED <<mq_args, mq_i>>
    /\ UNCHANGED notMulti

\* The largest number of fragments of a query.
MaxFragments == 2

\* top_k_per_query
TopKPerQuery == 2

\* The hit lists a fragment may get: distinct passages of documents "d0"
\* (the querying document) and "d1", by non-decreasing distance.
FragmentHits ==
    LET Passages == { [chunk_id |-> "p1", doc_id |-> "d1"],
                      [chunk_id |-> "p2", doc_id |-> "d1"],
                      [chunk_id |-> "p0", doc_id |-> "d0"] }
        Lists    == SeqsUpTo(Passages \X Distances, TopKPerQuery)
    IN  { [n \in 1..Len(l) |-> l[n][1] @@ [distance |-> l[n][2]]] :
            l \in { x \in Lists :
                      /\ NonDecreasing([n \in 1..Len(x) |-> x[n][2]])
                      /\ \A m, n \in 1..Len(x) : m # n => x[m][1] # x[n][1] } }

InitMulti ==
    /\ mq_args \in { [query_hits |-> qh, use_reranker |-> ur]
                        @@ Kw("exclude_doc_id", ex, "d0") @@ Kw("final_top_k", ft, 1) :
                     qh \in SeqsUpTo(FragmentHits, MaxFragments),
                     ur \in BOOLEAN, ex \in BOOLEAN, ft \in BOOLEAN }
    /\ mq_i = 0
    /\ all_results = <<>>
    /\ mqpc = "call"
    /\ IdleChunker
    /\ IdleSearch
    /\ IdleDedup
    /\ IdleMerge
    /\ IdleIngest
    /\ IdlePaging
    /\ IdleSingleton

NextMulti ==
    \/ MultiQueryBegin
    \/ MultiQueryFragment
    \/ MultiQueryFinish

SpecMulti == InitMulti /\ [][NextMulti]_vars

-----------------------------------------------------------------------------
(* MilvusVectorDatabase.add_documents and _add_chunk_level                 *)

\* CHUNK_INSERT_BATCH, in chunks (500 in the source, scaled).
CHUNK_INSERT_BATCH == 2

\* flush_thread.join(timeout=60), load_t.join(timeout=30), time.sleep(5), in
\* seconds, and the number of load attempts.
FlushTimeout == 60
LoadTimeout == 30
RetrySleep == 5
max_retries == 3

\* The largest number of add_documents calls, of failing batch inserts, and
\* of chunks of a document.
MaxRuns == 3
MaxFailures == 1
MaxChunksPerDoc == 2

\* _get_existing_doc_ids: the doc_ids of the stored chunks.
_get_existing_doc_ids(collection) ==
    {collection[i].doc_id : i \in 1..Len(collection)}

\* all_chunks, then entities: the chunks of the segments, document after
\* document.
RECURSIVE AllChunks(_)
AllChunks(segs) ==
    IF segs = <<>> THEN <<>>
    ELSE [k \in 1..Head(segs).chunk_count |->
             [doc_id |-> Head(segs).doc_id, chunk_index |-> k - 1]]
         \o AllChunks(Tail(segs))

\* Mutant: the load is retried without limit.
RetriesForever(retry) == TRUE

\* for retry in range(max_retries)
MoreRetries(retry) == retry < max_retries

\* add_documents(segments, skip_existing=True) up to the first batch: the
\* documents already in the collection are left out, the others are chunked
\* into entities; with nothing left the call returns at once.
AddDocuments ==
    /\ ipc \in {"call", "failed", "returned"}
    /\ ingest_runs < MaxRuns
    /\ LET existing_doc_ids == _get_existing_doc_ids(chunk_collection)
           todo == SelectSeq(segments, LAMBDA seg : seg.doc_id \notin existing_doc_ids)
       IN  /\ entities' = AllChunks(todo)
           /\ ipc' = IF todo = <<>> THEN "returned" ELSE "insert"
    /\ total_inserted' = 0
    /\ ingest_runs' = ingest_runs + 1
    /\ load_retry' = 0
    /\ waited' = 0
    /\ UNCHANGED <<segments, chunk_collection, insert_failures>>
    /\ UNCHANGED notIngest

\* One iteration of the batch loop: chunk_collection.insert of the next
\* CHUNK_INSERT_BATCH chunks, which succeeds or raises; the exception leaves
\* add_documents.
InsertBatch ==
    /\ ipc = "insert"
    /\ LET end_idx == Min(total_inserted + CHUNK_INSERT_BATCH, Len(entities))
       IN  \/ /\ chunk_collection' =
                     chunk_collection \o SubSeq(entities, total_inserted + 1, end_idx)
              /\ total_inserted' = end_idx
              /\ ipc' = IF end_idx = Len(entities) THEN "flush" ELSE "insert"
              /\ UNCHANGED insert_failures
           \/ /\ insert_failures < MaxFailures
              /\ insert_failures' = insert_failures + 1
              /\ ipc' = "failed"
              /\ UNCHANGED <<chunk_collection, total_inserted>>
    /\ UNCHANGED <<segments, entities, ingest_runs, load_retry, waited>>
    /\ UNCHANGED notIngest

\* The flush thread and join(timeout=60): flush returns or raises in time
\* (flush_success), or the join times out and the load loop is entered.
FlushData ==
    /\ ipc = "flush"
    /\ \/ ipc' = "returned" /\ UNCHANGED waited
       \/ ipc' = "load" /\ waited' = waited + FlushTimeout
    /\ UNCHANGED <<segments, chunk_collection, entities, total_inserted, ingest_runs,
                   insert_failures, load_retry>>
    /\ UNCHANGED notIngest

\* One attempt of the load loop: load returns (break), or the join times out
\* or load raises; between attempts the loop sleeps.
LoadCollection ==
    /\ ipc = "load"
    /\ \/ ipc' = "returned" /\ UNCHANGED <<load_retry, waited>>
       \/ \E timed_out \in BOOLEAN :
             /\ load_retry' = load_retry + 1
             /\ waited' = waited + (IF timed_out THEN LoadTimeout ELSE 0)
                                 + (IF load_retry < max_retries - 1 THEN RetrySleep ELSE 0)
             /\ ipc' = IF MoreRetries(load_retry + 1) THEN "load" ELSE "returned"
    /\ UNCHANGED <<segments, chunk_collection, entities, total_inserted, ingest_runs,
                   insert_failures>>
    /\ UNCHANGED notIngest

\* The documents to ingest, each with the number of chunks the chunker
\* makes of it; the collection starts empty.
IngestDocs == {"d1", "d2", "d3"}

SegmentLists ==
    { segs \in SeqsUpTo([doc_id : IngestDocs, chunk_count : 1..MaxChunksPerDoc],
                        Cardinality(IngestDocs)) :
        \A i, j \in 1..Len(segs) : i # j => segs[i].doc_id # segs[j].doc_id }

InitIngest ==
    /\ segments \in SegmentLists
    /\ chunk_collection = <<>>
    /\ entities = <<>>
    /\ total_inserted = 0
    /\ ingest_runs = 0
    /\ insert_failures = 0
    /\ load_retry = 0
    /\ waited = 0
    /\ ipc = "call"
    /\ IdleChunker
    /\ IdleSearch
    /\ IdleDedup
    /\ IdleMerge
    /\ IdleMulti
    /\ IdlePaging
    /\ IdleSingleton

NextIngest ==
    \/ AddDocuments
    \/ InsertBatch
    \/ FlushData
    \/ LoadCollection

SpecIngest == InitIngest /\ [][NextIngest]_vars

\* The joins time out and the sleeps end: a flush or a load that is being
\* waited for is given up after its timeout.
SpecIngestFair == SpecIngest /\ WF_vars(FlushData) /\ WF_vars(LoadCollection)

-----------------------------------------------------------------------------
(* MilvusVectorDatabase.get_existing_title_timestamp_pairs                 *)

\* batch_size (10000 in the source) and the store's limit on offset + limit
\* (16384), scaled in the same proportion.
batch_size == 5
QueryWindow == 8

\* The largest number of stored records.
MaxEntities == 20

\* chunk_collection.query(expr="id >= 0", offset, limit): the records in
\* the window.  The store rejects a window that ends beyond QueryWindow.
QueryRejected(off, limit) == off + limit > QueryWindow

Query(records, off, limit) ==
    SubSeq(records, off + 1, Min(off + limit, Len(records)))

\* existing_pairs.add((title, timestamp)) for the results with a title
AddPairs(pairs, results) ==
    pairs \cup { <<results[i].title, results[i].timestamp>> :
                    i \in {j \in 1..Len(results) : results[j].title # ""} }

\* The function up to the loop: an empty collection returns the empty set.
GetPairsBegin ==
    /\ ppc = "call"
    /\ existing_pairs' = {}
    /\ offset' = 0
    /\ ppc' = IF Len(title_records) = 0 THEN "returned" ELSE "loop"
    /\ UNCHANGED <<title_records, query_rejected>>
    /\ UNCHANGED notPaging

\* One iteration of `while offset < entity_count`, and the loop test that
\* follows it.
GetPairsBatch ==
    /\ ppc = "loop"
    /\ LET entity_count  == Len(title_records)
           current_limit == Min(Min(batch_size, entity_count - offset),
                                QueryWindow - (offset % QueryWindow))
           results       == Query(title_records, offset, current_limit)
       IN  IF current_limit <= 0
           THEN ppc' = "returned" /\ UNCHANGED <<existing_pairs, offset, query_rejected>>
           ELSE IF QueryRejected(offset, current_limit)
           THEN /\ query_rejected' = TRUE
                /\ ppc' = "returned"
                /\ UNCHANGED <<existing_pairs, offset>>
           ELSE IF results = <<>>
           THEN ppc' = "returned" /\ UNCHANGED <<existing_pairs, offset, query_rejected>>
           ELSE /\ existing_pairs' = AddPairs(existing_pairs, results)
                /\ offset' = offset + Len(results)
                /\ ppc' = IF \/ Len(results) < current_limit
                             \/ offset + Len(results) >= entity_count
                          THEN "returned" ELSE "loop"
                /\ UNCHANGED query_rejected
    /\ UNCHANGED title_records
    /\ UNCHANGED notPaging

\* The stored records: n of them, two per (title, timestamp) pair as the
\* chunks of one document are, one of them possibly without title.
TitleRecords(n, blank) ==
    [i \in 1..n |-> [title     |-> IF i = blank THEN "" ELSE "t",
                     timestamp |-> (i + 1) \div 2]]

InitPaging ==
    /\ \E n \in 0..MaxEntities : \E blank \in 0..n :
           title_records = TitleRecords(n, blank)
    /\ offset = 0
    /\ existing_pairs = {}
    /\ query_rejected = FALSE
    /\ ppc = "call"
    /\ IdleChunker
    /\ IdleSearch
    /\ IdleDedup
    /\ IdleMerge
    /\ IdleMulti
    /\ IdleIngest
    /\ IdleSingleton

NextPaging ==
    \/ GetPairsBegin
    \/ GetPairsBatch

SpecPaging == InitPaging /\ [][NextPaging]_vars

-----------------------------------------------------------------------------
(* utils.reranker.get_reranker and utils.reranker_manual.get_manual_reranker *)

\* The threads that call get_reranker, and the calls each of them makes.
MaxThreads == 2
MaxCalls == 2

Threads == 1..MaxThreads

\* The value None of the two module globals and of a thread's local.
NoInstance == [id |-> 0, class |-> None, enabled |-> FALSE]

\* The instance a constructor call returns; enabled tells whether the model
\* was loaded (__init__ catches a failing load and sets enabled = False).
NewInstance(class, enabled) ==
    [id |-> Len(constructed) + 1, class |-> class, enabled |-> enabled]

\* get_reranker is called and tests `_reranker_instance is None`.
GetReranker ==
    \E t \in Threads :
        /\ rpc[t] = "idle"
        /\ calls_made[t] < MaxCalls
        /\ calls_made' = [calls_made EXCEPT ![t] = @ + 1]
        /\ IF _reranker_instance # NoInstance
           THEN /\ returned' = returned \cup {_reranker_instance}
                /\ UNCHANGED rpc
           ELSE /\ rpc' = [rpc EXCEPT ![t] = "manual"]
                /\ UNCHANGED returned
        /\ UNCHANGED <<_reranker_instance, _manual_reranker_instance, manual_reranker,
                       constructed>>
        /\ UNCHANGED notSingleton

\* get_manual_reranker tests `_manual_reranker_instance is None`; the import
\* or the call may raise, which get_reranker catches.
GetManualReranker ==
    \E t \in Threads :
        /\ rpc[t] = "manual"
        /\ \/ IF _manual_reranker_instance = NoInstance
              THEN rpc' = [rpc EXCEPT ![t] = "loading_manual"] /\ UNCHANGED manual_reranker
              ELSE /\ manual_reranker' =
                          [manual_reranker EXCEPT ![t] = _manual_reranker_instance]
                   /\ rpc' = [rpc EXCEPT ![t] = "test_enabled"]
           \/ rpc' = [rpc EXCEPT ![t] = "loading_standard"] /\ UNCHANGED manual_reranker
        /\ UNCHANGED <<_reranker_instance, _manual_reranker_instance, calls_made,
                       constructed, returned>>
        /\ UNCHANGED notSingleton

\* _manual_reranker_instance = ManualBCEReranker(): the constructor returns
\* after the model was loaded, or failed to load.
ConstructManual ==
    \E t \in Threads : \E enabled \in BOOLEAN :
        /\ rpc[t] = "loading_manual"
        /\ LET instance == NewInstance("ManualBCEReranker", enabled)
           IN  /\ constructed' = Append(constructed, instance)
               /\ _manual_reranker_instance' = instance
               /\ manual_reranker' = [manual_reranker EXCEPT ![t] = instance]
        /\ rpc' = [rpc EXCEPT ![t] = "test_enabled"]
        /\ UNCHANGED <<_reranker_instance, calls_made, returned>>
        /\ UNCHANGED notSingleton

\* if manual_reranker.enabled: the manual instance becomes the singleton and
\* is returned; otherwise the standard loading follows.
TestEnabled ==
    \E t \in Threads :
        /\ rpc[t] = "test_enabled"
        /\ IF manual_reranker[t].enabled
           THEN /\ _reranker_instance' = manual_reranker[t]
                /\ returned' = returned \cup {manual_reranker[t]}
                /\ rpc' = [rpc EXCEPT ![t] = "idle"]
           ELSE /\ rpc' = [rpc EXCEPT ![t] = "loading_standard"]
                /\ UNCHANGED <<_reranker_instance, returned>>
        /\ UNCHANGED <<_manual_reranker_instance, manual_reranker, calls_made, constructed>>
        /\ UNCHANGED notSingleton

\* _reranker_instance = BCEReranker(); return _reranker_instance
ConstructStandard ==
    \E t \in Threads : \E enabled \in BOOLEAN :
        /\ rpc[t] = "loading_standard"
        /\ LET instance == NewInstance("BCEReranker", enabled)
           IN  /\ constructed' = Append(constructed, instance)
               /\ _reranker_instance' = instance
               /\ returned' = returned \cup {instance}
        /\ rpc' = [rpc EXCEPT ![t] = "idle"]
        /\ UNCHANGED <<_manual_reranker_instance, manual_reranker, calls_made>>
        /\ UNCHANGED notSingleton

InitSingleton ==
    /\ _reranker_instance = NoInstance
    /\ _manual_reranker_instance = NoInstance
    /\ manual_reranker = [t \in Threads |-> NoInstance]
    /\ rpc = [t \in Threads |-> "idle"]
    /\ calls_made = [t \in Threads |-> 0]
    /\ constructed = <<>>
    /\ returned = {}
    /\ IdleChunker
    /\ IdleSearch
    /\ IdleDedup
    /\ IdleMerge
    /\ IdleMulti
    /\ IdleIngest
    /\ IdlePaging

NextSingleton ==
    \/ GetReranker
    \/ GetManualReranker
    \/ ConstructManual
    \/ TestEnabled
    \/ ConstructStandard

SpecSingleton == InitSingleton /\ [][NextSingleton]_vars

-----------------------------------------------------------------------------
(* Properties of the chunker.                                              *)

NonWs(s) == SelectSeq(s, LAMBDA c : c \notin Whitespace)

\* The text of chunk i without the overlap text its buffer was seeded with.
WithoutOverlap(i) == Drop(chunks[i].content, Min(overlap_seeds[i], Len(chunks[i].content)))

SomeLongParagraph == \E i \in 1..Len(paragraphs) : Len(paragraphs[i]) > cfg.absolute_max

\* C1: every chunk returned by chunk_document has len(content) <= absolute_max.
C1_ChunkLengthBound ==
    cpc = "done" => \A i \in 1..Len(chunks) : Len(chunks[i].content) <= cfg.absolute_max

\* C1 witness: a document whose joined buffer exceeded absolute_max was
\* chunked, and a chunk was cut to exactly absolute_max.
C1_Witness ==
    /\ cpc = "done"
    /\ ~SomeLongParagraph
    /\ Len(NonWs(Concat(paragraphs))) > cfg.absolute_max
    /\ \E i \in 1..Len(chunks) :
           /\ overlap_seeds[i] > 0
           /\ Len(chunks[i].content) = cfg.absolute_max

\* C2 (as claimed): the chunks in chunk_index order, with the seeded overlap
\* removed, reproduce every paragraph in original order (compared on the
\* characters that are not whitespace, so separators do not matter).
C2_ChunkCoverage ==
    cpc = "done" =>
        NonWs(Concat([i \in 1..Len(chunks) |-> WithoutOverlap(i)]))
            = NonWs(Concat(paragraphs))

\* C3: chunk_index starts at 0 and is strictly increasing in emission order,
\* chunk_id is built from doc_id and that index, and no two chunks share one.
C3_ChunkIndexes ==
    /\ chunks # <<>> => chunks[1].chunk_index = 0
    /\ \A i, j \in 1..Len(chunks) :
           i < j => /\ chunks[i].chunk_index < chunks[j].chunk_index
                    /\ chunks[i].chunk_id # chunks[j].chunk_id
    /\ \A i \in 1..Len(chunks) :
           chunks[i].chunk_id = ChunkId(chunks[i].doc_id, chunks[i].chunk_index)

\* C3 witness: a finished document whose chunks came from a flush with an
\* overlap seed, from the split of an over-long paragraph and from the final
\* flush.
C3_Witness ==
    /\ cpc = "done"
    /\ Len(chunks) >= 4
    /\ SomeLongParagraph
    /\ \E i \in 1..Len(chunks) : overlap_seeds[i] > 0
    /\ current_chunk_parts # <<>>

-----------------------------------------------------------------------------
(* Properties of search_chunks.                                            *)

\* The calendar-date reading of the time window: on or before the day of
\* before_timestamp when allow_same_day, strictly before it otherwise, and
\* not before the day of after_timestamp.
AdmittedByDate(e, a) ==
    /\ Passed(a, "before_timestamp") =>
          IF a.allow_same_day
          THEN ParseDate(e.timestamp) <= a.before_timestamp.day
          ELSE ParseDate(e.timestamp) < a.before_timestamp.day
    /\ Passed(a, "after_timestamp") =>
          a.after_timestamp.day <= ParseDate(e.timestamp)

\* C8: with an upper time bound, the passages recalled are the nearest top_k
\* of those dated on or before the day of the bound when allow_same_day is
\* True, and of those dated strictly before it when allow_same_day is False,
\* for timestamps stored in ISO format with a time part.
C8_SameDayToggle ==
    (spc = "done" /\ Passed(args, "before_timestamp")) =>
        hits = Take(SelectSeq(store, LAMBDA e : AdmittedByDate(e, args)), args.top_k)

\* C9: no returned candidate has the excluded doc_id, and none has both the
\* excluded title and the date of the excluded timestamp.
C9_Exclusions ==
    spc = "done" =>
        \A i \in 1..Len(search_result) :
            LET r == search_result[i]
            IN  /\ Passed(args, "exclude_doc_id") => r.doc_id # args.exclude_doc_id
                /\ (Passed(args, "exclude_title") /\ Passed(args, "exclude_timestamp")) =>
                      ~(/\ r.title = args.exclude_title
                        /\ ParseDate(r.timestamp) = args.exclude_timestamp.day)

\* The call excluded by title and date a recalled passage of the querying
\* document stored under another doc_id, and returned something else.
C9_Witness ==
    /\ spc = "done"
    /\ Passed(args, "exclude_doc_id") /\ Passed(args, "exclude_title")
    /\ \E i \in 1..Len(hits) :
          /\ hits[i].doc_id # args.exclude_doc_id
          /\ hits[i].title = args.exclude_title
          /\ ParseDate(hits[i].timestamp) = args.exclude_timestamp.day
    /\ \E i \in 1..Len(hits) : hits[i].doc_id = args.exclude_doc_id
    /\ search_result # <<>>

\* precise_k: rerank_top_k, which defaults to top_k
PreciseK(a) == IF Passed(a, "rerank_top_k") THEN a.rerank_top_k ELSE a.top_k

\* C10 as stated: when reranking is skipped the result is the first precise_k
\* candidates of the coarse ordering, so never more than precise_k.
C10_SkippedKeepsPreciseK ==
    (spc = "done" /\ rerank_outcome = "skipped") =>
        /\ search_result = Take(formatted_results, PreciseK(args))
        /\ Len(search_result) <= PreciseK(args)

\* C10, amended: when reranking is skipped the result is the first precise_k
\* candidates of the coarse ordering if use_reranker is True and the first
\* top_k (coarse_k) candidates if use_reranker is False; only with
\* use_reranker True is it never longer than precise_k.
C10_SkippedKeepsFinalTopK ==
    (spc = "done" /\ rerank_outcome = "skipped") =>
        /\ args.use_reranker =>
              /\ search_result = Take(formatted_results, PreciseK(args))
              /\ Len(search_result) <= PreciseK(args)
        /\ ~args.use_reranker =>
              search_result = Take(formatted_results, args.top_k)

\* A call with use_reranker False returned more than rerank_top_k candidates.
C10_Witness ==
    /\ spc = "done" /\ rerank_outcome = "skipped"
    /\ ~args.use_reranker /\ Passed(args, "rerank_top_k")
    /\ Len(search_result) > args.rerank_top_k

\* The candidate without the fields the reranker adds.
Coarse(r) == [f \in DOMAIN r \ {"rerank_score", "original_rank"} |-> r[f]]

\* C11: when the reranking model did not load, cannot be obtained or throws
\* during inference, search_chunks returns (it does not raise) the
\* candidates in their coarse order, truncated to precise_k.
C11_DegradeNotFail ==
    (spc # "call" /\ rerank_outcome \in {"disabled", "predict_raises", "unavailable"}) =>
        /\ spc = "done"
        /\ Len(search_result) = Min(Len(formatted_results), PreciseK(args))
        /\ \A i \in 1..Len(search_result) :
               Coarse(search_result[i]) = formatted_results[i]

\* Inference threw on a coarse set larger than precise_k.
C11_Witness ==
    /\ spc = "done" /\ rerank_outcome = "predict_raises"
    /\ Len(formatted_results) > PreciseK(args)
    /\ search_result # <<>>

\* The authoritative score: the rerank score when a rerank pass was applied,
\* the similarity otherwise.
Authoritative(r) == IF Passed(r, "rerank_score") THEN r.rerank_score ELSE r.similarity

\* The position of a returned candidate in the coarse recall.
CoarseRank(r) ==
    CHOOSE k \in 1..Len(formatted_results) : formatted_results[k].chunk_id = r.chunk_id

\* C12: the returned sequence is in descending order of the authoritative
\* score, and candidates with equal score keep their coarse-recall order.
C12_ResultOrder ==
    spc = "done" =>
        \A i, j \in 1..Len(search_result) :
            i < j =>
                /\ Authoritative(search_result[i]) >= Authoritative(search_result[j])
                /\ Authoritative(search_result[i]) = Authoritative(search_result[j]) =>
                       CoarseRank(search_result[i]) < CoarseRank(search_result[j])

\* The reranker moved a less similar candidate in front of a more similar one.
C12_Witness ==
    /\ spc = "done" /\ rerank_outcome = "scored"
    /\ \E i, j \in 1..Len(search_result) :
          /\ i < j
          /\ search_result[i].rerank_score > search_result[j].rerank_score
          /\ search_result[i].similarity < search_result[j].similarity

\* C13: a failure of the embedding call or of the store search does not
\* leave search_chunks as an exception; the call returns an empty list.
C13_FailureYieldsEmptyList ==
    spc # "call" => spc = "done"

-----------------------------------------------------------------------------
(* Properties of _deduplicate_chunks.                                      *)

\* The candidate as search_chunks returned it.
Unweighted(r) == [f \in DOMAIN r \ {"time_bonus", "final_score"} |-> r[f]]

\* The candidates handed to _deduplicate_chunks.
Candidates == [i \in 1..Len(search_result) |-> Unweighted(search_result[i])]

\* base_score: the rerank_score if the candidate has one, else its similarity
BaseScore(r) == IF Passed(r, "rerank_score") THEN r.rerank_score ELSE r.similarity

DaysDiff(r) == policy_timestamp.day - ParseDate(r.timestamp)

C4_WitnessReranked ==
    /\ dpc = "done"
    /\ \E i \in 1..Len(deduplicated) : \E c \in 1..Len(Candidates) :
          /\ DedupKey(Candidates[c]) = DedupKey(deduplicated[i])
          /\ BaseScore(Candidates[c]) < BaseScore(deduplicated[i])
          /\ Passed(Candidates[c], "rerank_score")

\* C5: every returned candidate has final_score = base_score + time_bonus,
\* the base score being its rerank_score if it has one and its similarity
\* otherwise.
C5_FinalScore ==
    dpc = "done" =>
        \A i \in 1..Len(deduplicated) :
            deduplicated[i].final_score
                = BaseScore(deduplicated[i]) + deduplicated[i].time_bonus

\* C6: of two returned candidates with the same base score, the one dated
\* closer to the reference timestamp has a final score at least as high.
C6_TimeBonusMonotone ==
    dpc = "done" =>
        \A i, j \in 1..Len(deduplicated) :
            (/\ BaseScore(deduplicated[i]) = BaseScore(deduplicated[j])
             /\ DaysDiff(deduplicated[i]) < DaysDiff(deduplicated[j]))
                => deduplicated[i].final_score >= deduplicated[j].final_score

\* C16: _deduplicate_chunks applied to its own output, with the same
\* reference timestamp and top_k, returns that output: the same candidates
\* in the same order with the same final_score.
C16_DedupIdempotent ==
    dpc = "done" =>
        _deduplicate_chunks(deduplicated, policy_timestamp, dedup_top_k) = deduplicated

\* The first application returned two weighted candidates, the more similar
\* one behind the more recent one.
C16_Witness ==
    /\ dpc = "done"
    /\ \E i, j \in 1..Len(deduplicated) :
          /\ i < j
          /\ deduplicated[i].time_bonus > 0
          /\ deduplicated[i].similarity < deduplicated[j].similarity

-----------------------------------------------------------------------------
(* Properties of merge_chunks_by_doc_id.                                   *)

RECURSIVE SumChunkCount(_)
SumChunkCount(docs) ==
    IF docs = <<>> THEN 0 ELSE Head(docs).chunk_count + SumChunkCount(Tail(docs))

\* C7: the groups returned for N candidates have member counts that sum to
\* N, and each group's chunk_count is the length of its chunks.
C7_MergeCompleteness ==
    mpc = "done" =>
        /\ SumChunkCount(merged_docs) = Len(rag_results)
        /\ \A i \in 1..Len(merged_docs) :
               merged_docs[i].chunk_count = Len(merged_docs[i].chunks)

-----------------------------------------------------------------------------
(* Properties of search_chunks_multi_query.                                *)

\* C14: the failure of one fragment's sub-search does not abort the call:
\* the remaining fragments are processed and the call returns.
C14_FragmentFailureIsolated ==
    mqpc # "search_raised"

\* The similarities fragment i observed for a chunk_id, exclusions applied.
Observed(i, chunk_id) ==
    LET fragment_hits == mq_args.query_hits[i + 1]
    IN  { Similarity(fragment_hits[n].distance) :
            n \in { m \in 1..Len(fragment_hits) :
                      /\ fragment_hits[m].chunk_id = chunk_id
                      /\ ~(/\ Passed(mq_args, "exclude_doc_id")
                           /\ fragment_hits[m].doc_id = mq_args.exclude_doc_id) } }

\* C15: while and after the fan-out loop the merged set holds each chunk_id
\* at most once, with the highest similarity observed for it in the
\* fragments processed, and matched_by_query_chunk names a fragment that
\* observed that similarity.
C15_MergedSet ==
    (mqpc = "loop") =>
        /\ \A m, n \in 1..Len(all_results) :
               m # n => all_results[m].chunk_id # all_results[n].chunk_id
        /\ \A n \in 1..Len(all_results) :
               LET r == all_results[n]
               IN  /\ r.matched_by_query_chunk \in 0..(mq_i - 1)
                   /\ r.similarity \in Observed(r.matched_by_query_chunk, r.chunk_id)
                   /\ \A i \in 0..(mq_i - 1) :
                          \A s \in Observed(i, r.chunk_id) : s <= r.similarity
        /\ \A i \in 0..(mq_i - 1) :
               \A n \in 1..Len(mq_args.query_hits[i + 1]) :
                   Observed(i, mq_args.query_hits[i + 1][n].chunk_id) # {} =>
                       \E m \in 1..Len(all_results) :
                           all_results[m].chunk_id = mq_args.query_hits[i + 1][n].chunk_id

\* The loop is over and a later fragment raised the similarity of a chunk
\* an earlier fragment had found.
C15_Witness ==
    /\ mqpc = "loop" /\ mq_i = Len(mq_args.query_hits)
    /\ \E n \in 1..Len(all_results) :
          /\ all_results[n].matched_by_query_chunk = 1
          /\ Observed(0, all_results[n].chunk_id) # {}

\* The doc_id under which a candidate ends up: its stripped doc_id, or its
\* stripped chunk_id when it has no doc_id.
GroupOf(c) ==
    IF HasDocId(c) THEN Strip(c.doc_id) ELSE Strip(Get(c, "chunk_id", <<>>))

\* The positions in rag_results of the candidates of a group.
Members(d) == {i \in 1..Len(rag_results) : GroupOf(rag_results[i]) = d}

\* The orders of a set of positions that are ascending in chunk_index.
AscendingOrders(ms) ==
    { o \in [1..Cardinality(ms) -> ms] :
        /\ \A m, n \in 1..Cardinality(ms) : m # n => o[m] # o[n]
        /\ \A m, n \in 1..Cardinality(ms) :
               m < n => rag_results[o[m]].chunk_index <= rag_results[o[n]].chunk_index }

C17_WitnessSecondPass ==
    /\ mpc = "done"
    /\ \E j \in 1..Len(merged_docs) :
          /\ merged_docs[j].chunk_count = 3
          /\ \E n \in 1..3 : ~HasDocId(merged_docs[j].chunks[n])

\* ---------------------------------------------------------------------------
\* Properties of the chunker's configuration and of its overlap
\* ---------------------------------------------------------------------------

\* overlap < chunk_size_target <= chunk_size_max <= absolute_max
UsableConfig(c) ==
    /\ c.overlap < c.chunk_size_target
    /\ c.chunk_size_target <= c.chunk_size_max
    /\ c.chunk_size_max <= c.absolute_max

\* C18: a chunker that has chunked a document was constructed with a usable
\* configuration, one with overlap < target <= max <= absolute_max.
C18_UnusableConfigRejected ==
    cpc = "done" => UsableConfig(cfg)

\* C19: chunk_document does not raise, and a content none of whose
\* paragraphs passes the noise filter (the empty content among them) gives
\* an empty list of chunks.
C19_NeverRaises ==
    /\ cpc # "raised"
    /\ (cpc = "done" /\ _split_into_paragraphs(content) = <<>>) => chunks = <<>>

\* Whether s ends with t.
EndsWith(s, t) == Len(t) <= Len(s) /\ Drop(s, Len(s) - Len(t)) = t

\* C20: for consecutive chunks i and i+1 of the result, the text carried over
\* from chunk i into the start of chunk i+1 is at most cfg.overlap long; in
\* chunk i+1 it is followed by the paragraph separator.
C20_OverlapBound ==
    cpc = "done" =>
        \A i \in 1..(Len(chunks) - 1) :
            LET carried == overlap_seeds[i + 1]
                next    == chunks[i + 1].content
            IN  /\ carried <= cfg.overlap
                /\ (carried > 0 /\ Len(next) >= carried + 2) =>
                       /\ next[carried + 1] = NL
                       /\ next[carried + 2] = NL

\* A chunk starts with exactly cfg.overlap characters carried over from the
\* end of the chunk before it.
C20_Witness ==
    /\ cpc = "done"
    /\ cfg.overlap > 0
    /\ \E i \in 1..(Len(chunks) - 1) :
          /\ overlap_seeds[i + 1] = cfg.overlap
          /\ Len(chunks[i + 1].content) > cfg.overlap
          /\ EndsWith(chunks[i].content, Take(chunks[i + 1].content, cfg.overlap))

\* Boundary snapping: the carried text was cut after a sentence delimiter
\* and is shorter than cfg.overlap.
C20_WitnessSnapped ==
    /\ cpc = "done"
    /\ \E i \in 1..(Len(chunks) - 1) :
          /\ overlap_seeds[i + 1] > 0
          /\ overlap_seeds[i + 1] < cfg.overlap

\* ---------------------------------------------------------------------------
\* Frame of _deduplicate_chunks
\* ---------------------------------------------------------------------------

\* C21: _deduplicate_chunks leaves the candidate list and the candidate
\* records its caller passed in as they were, in order and in fields.
C21_InputsUnchanged ==
    [][(dpc = "call" /\ dpc' = "done") => search_result' = search_result]_vars

\* ---------------------------------------------------------------------------
\* Properties of chunk_type and of clause boundaries
\* ---------------------------------------------------------------------------

\* C22: a chunk is of type "clause" when a paragraph that contributed to it
\* is a clause start, and "paragraph" otherwise.  Stated for the chunks that
\* are exactly one paragraph of the document, on whatever path they were
\* emitted, and for the documents without any clause start.
C22_ChunkType ==
    cpc = "done" =>
        \A i \in 1..Len(chunks) :
            /\ (\E k \in 1..Len(paragraphs) :
                    /\ chunks[i].content = paragraphs[k]
                    /\ overlap_seeds[i] = 0
                    /\ _is_clause_start(paragraphs[k]))
                => chunks[i].chunk_type = "clause"
            /\ (\A k \in 1..Len(paragraphs) : ~_is_clause_start(paragraphs[k]))
                => chunks[i].chunk_type = "paragraph"

\* Whether a text begins, after blanks, with a numeral run and a clause mark.
StartsClause(text) ==
    LET p == Strip(text)
    IN  \E k \in 1..(Len(p) - 1) :
            /\ \A n \in 1..k : p[n] \in ChineseNumerals \cup Digits
            /\ p[k + 1] \in ClauseMarks

\* In a sequence of parts, a clause start is the first part, or the second
\* one after an overlap text of the given length.
ClauseOpensParts(parts, seed) ==
    \A j \in 2..Len(parts) :
        StartsClause(parts[j]) => j = 2 /\ seed > 0 /\ Len(parts[1]) = seed

\* The step that meets paragraphs[para_i], a clause start, with a buffer
\* that is not empty: the buffer is emitted as the next chunk, and the
\* paragraph starts a long split, or a buffer, alone or after the overlap
\* text, which is kept or emitted within the same step.
ClauseStep ==
    (/\ cpc = "loop"
     /\ para_i <= Len(paragraphs)
     /\ StartsClause(paragraphs[para_i])
     /\ current_chunk_parts # <<>>)
    => LET para == paragraphs[para_i]
           n    == Len(chunks)
       IN  /\ Len(chunks') > n
           /\ chunks'[n + 1].content =
                  _smart_truncate(JoinParts(current_chunk_parts), cfg.absolute_max)
           /\ \/ cpc' = "long" /\ remaining' = para /\ current_chunk_parts' = <<>>
              \/ /\ Len(chunks') = n + 1
                 /\ current_chunk_parts'[Len(current_chunk_parts')] = para
                 /\ ClauseOpensParts(current_chunk_parts', buffer_seed')
              \/ /\ Len(chunks') = n + 2
                 /\ current_chunk_parts' = <<>>
                 /\ LET c  == chunks'[n + 2].content
                        sd == overlap_seeds'[n + 2]
                    IN  c = _smart_truncate(
                                JoinParts(IF sd > 0 THEN <<Take(c, sd), para>> ELSE <<para>>),
                                cfg.absolute_max)

\* C23: a clause-start paragraph met with a non-empty buffer flushes the
\* buffer as a completed chunk before it is added, so in the buffer a
\* clause-start paragraph is preceded by nothing but the overlap text.
C23_ClauseFlushes ==
    /\ [](ClauseOpensParts(current_chunk_parts, buffer_seed))
    /\ [][ClauseStep]_vars

\* The clause start alone forced the flush: the chunk before it and the
\* clause paragraph would have fitted the target size together.
C23_Witness ==
    /\ cpc = "done"
    /\ \E i \in 1..(Len(chunks) - 1) :
          /\ StartsClause(WithoutOverlap(i + 1))
          /\ Len(chunks[i].content) + Len(chunks[i + 1].content) <= cfg.chunk_size_target

\* ---------------------------------------------------------------------------
\* Candidates without doc_id in merge_chunks_by_doc_id
\* ---------------------------------------------------------------------------

\* C24: every candidate without a usable doc_id is in the output as a group
\* of its own with chunk_count 1: none is merged and none is dropped.
C24_SingletonGroups ==
    mpc = "done" =>
        /\ \A i \in 1..Len(rag_results) :
               ~HasDocId(rag_results[i]) =>
                   \E j \in 1..Len(merged_docs) :
                       /\ merged_docs[j].chunk_count = 1
                       /\ merged_docs[j].chunks = <<rag_results[i]>>
        /\ Cardinality({j \in 1..Len(merged_docs) :
                            /\ merged_docs[j].chunk_count = 1
                            /\ ~HasDocId(merged_docs[j].chunks[1])})
               = Cardinality({i \in 1..Len(rag_results) : ~HasDocId(rag_results[i])})

\* ---------------------------------------------------------------------------
\* Properties of add_documents and _add_chunk_level
\* ---------------------------------------------------------------------------

\* How often a chunk is in the collection.
StoredCopies(d, k) ==
    Cardinality({i \in 1..Len(chunk_collection) :
                     chunk_collection[i] = [doc_id |-> d, chunk_index |-> k]})

\* C25: when add_documents, run again with the same segments after a batch
\* insert failed, has returned, every chunk of every segment is in the
\* collection exactly once.
C25_ResumeCompletes ==
    (ipc = "returned" /\ insert_failures > 0) =>
        \A s \in 1..Len(segments) :
            \A k \in 0..(segments[s].chunk_count - 1) :
                StoredCopies(segments[s].doc_id, k) = 1

\* ---------------------------------------------------------------------------
\* Properties of get_existing_title_timestamp_pairs
\* ---------------------------------------------------------------------------

\* C26: for a collection of any size the function returns the pairs of all
\* records with a title, and no paged query it issues is rejected by the
\* store's limit on offset + limit.
C26_AllPairs ==
    /\ ~query_rejected
    /\ ppc = "returned" =>
           existing_pairs =
               { <<title_records[i].title, title_records[i].timestamp>> :
                   i \in {j \in 1..Len(title_records) : title_records[j].title # ""} }

\* ---------------------------------------------------------------------------
\* Properties of get_reranker
\* ---------------------------------------------------------------------------

\* C27: over every interleaving of calls the reranking model is loaded at
\* most once and every caller receives the same instance.
C27_Singleton ==
    /\ Cardinality({i \in 1..Len(constructed) : constructed[i].enabled}) <= 1
    /\ Cardinality(returned) <= 1

\* ---------------------------------------------------------------------------
\* Termination of the splitting loop of chunk_document
\* ---------------------------------------------------------------------------

\* An iteration of `while len(remaining) > 0` emits a chunk that is not
\* empty and leaves a strictly shorter remaining text.
SplitStepProgress ==
    cpc = "long" =>
        /\ Len(remaining') < Len(remaining)
        /\ Len(chunks') = Len(chunks) + 1
        /\ chunks'[Len(chunks')].content # <<>>
        /\ Len(chunks'[Len(chunks')].content) + Len(remaining') <= Len(remaining)

\* At the head of the loop the remaining text is not empty, starts with a
\* character that strip() keeps, and the next cut is not empty.
SplitCanProgress ==
    cpc = "long" =>
        /\ Len(remaining) > 0
        /\ remaining[1] \notin Whitespace
        /\ (Len(remaining) > cfg.absolute_max) =>
               _smart_truncate(remaining, cfg.absolute_max) # <<>>

\* C28: the splitting loop for a paragraph longer than absolute_max
\* terminates: every iteration emits a non-empty chunk and shortens the
\* remaining text, and the loop is left.
C28_SplitTerminates ==
    /\ [](SplitCanProgress)
    /\ [][SplitStepProgress]_vars

\* The loop has emitted a piece of the paragraph and goes on with the rest.
C28_Witness ==
    /\ cpc = "long"
    /\ remaining # <<>>
    /\ Len(remaining) < Len(paragraphs[para_i])
    /\ Len(remaining) > cfg.absolute_max

\* ---------------------------------------------------------------------------
\* Range of the time bonus
\* ---------------------------------------------------------------------------

\* 0.1 in units of 1/ScoreUnit
MaxTimeBonus == ScoreUnit \div 10

\* C29: every candidate _deduplicate_chunks returns has
\* 0 <= time_bonus <= 0.1, whatever its timestamp is.
C29_TimeBonusRange ==
    dpc = "done" =>
        \A i \in 1..Len(deduplicated) :
            /\ 0 <= deduplicated[i].time_bonus
            /\ deduplicated[i].time_bonus <= MaxTimeBonus

\* The bound holds for the candidates that are not later than the reference.
TimeBonusRangeNotLater ==
    dpc = "done" =>
        \A i \in 1..Len(deduplicated) :
            LET c == deduplicated[i]
            IN  (policy_timestamp # NoTimestamp /\ Passed(c, "timestamp")
                    /\ ParseDate(c.timestamp) > policy_timestamp.day)
                \/ (0 <= c.time_bonus /\ c.time_bonus <= MaxTimeBonus)

\* ---------------------------------------------------------------------------
\* _add_chunk_level against a store whose flush and load hang
\* ---------------------------------------------------------------------------

\* The longest time spent waiting after the inserts: the flush timeout, a
\* load timeout per attempt, and a sleep between two attempts.
MaxWait == FlushTimeout + max_retries * LoadTimeout + (max_retries - 1) * RetrySleep

\* The waits after the inserts are bounded: at most max_retries load
\* attempts, entered only after the flush timeout.
BoundedWaits ==
    /\ load_retry <= max_retries
    /\ waited <= MaxWait
    /\ (ipc = "load" \/ load_retry > 0) => waited >= FlushTimeout
    /\ ipc = "load" => load_retry < max_retries

\* After the inserts nothing raises, and nothing is inserted or removed.
NoRaiseAfterInserts ==
    ipc \in {"flush", "load"} =>
        /\ ipc' \in {"flush", "load", "returned"}
        /\ chunk_collection' = chunk_collection
        /\ total_inserted' = total_inserted

\* C30: once every batch is inserted _add_chunk_level returns, even when
\* flush and every load hang: the waits are bounded, load is attempted at
\* most max_retries times, and no exception leaves the function.
C30_ReturnsDespiteHang ==
    /\ [](BoundedWaits)
    /\ [][NoRaiseAfterInserts]_vars
    /\ (ipc = "flush") ~> (ipc = "returned" /\ total_inserted = Len(entities))

\* flush and all max_retries loads timed out, and the function returned
\* with every chunk inserted.
C30_Witness ==
    /\ ipc = "returned"
    /\ load_retry = max_retries
    /\ waited = MaxWait
    /\ total_inserted = Len(entities)
    /\ total_inserted > CHUNK_INSERT_BATCH

=============================================================================
